---- MODULE Spec2Model ----
(***************************************************************************)
(* Verification model of the autocallable pricer:                          *)
(*   utils/pricing.py   price_autocall_mc, build_obs_steps                 *)
(*   utils/backtest.py  _evaluate_autocall_path, _build_observation_dates  *)
(*                                                                         *)
(* Numbers.  The code computes in floating point; the model computes the   *)
(* same expressions in exact rational arithmetic.  A rational is a pair    *)
(* <<n, d>> in lowest terms with d > 0.  Prices and barrier percentages    *)
(* are integers.  The Gaussian draws of the path simulator are modelled    *)
(* as a nondeterministic choice of every simulated price; exp/log based    *)
(* outputs (discount factors, pv, ci95, forward) are not represented.      *)
(* The products of a maturity that the code rounds to an integer (round,   *)
(* ceil) are computed as products of doubles, see FloatMulRound.           *)
(* Prices are whole numbers of a unit of 5e-14, in which the floor 1e-12   *)
(* of pricing.py line 72 is MinLevel = 20; the rounding of exp(log(.)) is  *)
(* not represented.                                                        *)
(*                                                                         *)
(* Dates.  A calendar date is an integer number of weeks; the historical   *)
(* series handed to the backtest evaluator is the simulated path sampled   *)
(* on its own grid, one trading date per grid step.                        *)
(***************************************************************************)
EXTENDS Integers, Sequences, FiniteSets, TLC

\* ---------------------------------------------------------------- bounds
NPaths == 2

PathIds == 1..NPaths

\* ------------------------------------------------------------- rationals
Abs(x) == IF x < 0 THEN -x ELSE x

RECURSIVE GCD(_, _)
GCD(a, b) == IF b = 0 THEN a ELSE GCD(b, a % b)

Rat(n, d) ==
    LET s == IF d < 0 THEN -1 ELSE 1
        g == GCD(Abs(n), Abs(d))
    IN  <<(s * n) \div g, (s * d) \div g>>

RInt(k) == <<k, 1>>
RAdd(a, b) == Rat(a[1] * b[2] + b[1] * a[2], a[2] * b[2])
RMul(a, b) == Rat(a[1] * b[1], a[2] * b[2])
RDiv(a, b) == Rat(a[1] * b[2], a[2] * b[1])
RLt(a, b) == a[1] * b[2] < b[1] * a[2]
RGe(a, b) == ~RLt(a, b)
RMin(a, b) == IF RLt(b, a) THEN b ELSE a

\* Python round(): nearest integer, ties to the even one (argument >= 0).
PyRound(x) ==
    LET q == x[1] \div x[2]
        r == x[1] % x[2]
    IN  IF 2 * r < x[2] THEN q
        ELSE IF 2 * r > x[2] THEN q + 1
        ELSE IF q % 2 = 0 THEN q ELSE q + 1

\* math.ceil
PyCeil(x) == -((-x[1]) \div x[2])

\* int(): truncation toward zero (argument >= 0).
PyInt(x) == x[1] \div x[2]

\* ---------------------------------------------------------- float products
\* A maturity is a Python float.  The pair <<n, d>> stands for the double
\* nearest to n/d and the triple <<n, d, u>> for the double u places above
\* it.  The double of x lies below n/d by FloatDeviation(x) / d units in the
\* last place, a unit being 2^(FloorLog2(x) - MantissaBits).
MantissaBits == 52

RECURSIVE Pow2(_)
Pow2(k) == IF k = 0 THEN 1 ELSE 2 * Pow2(k - 1)

RECURSIVE Log2Up(_, _)
Log2Up(x, e) == IF x[1] >= x[2] * Pow2(e + 1) THEN Log2Up(x, e + 1) ELSE e
RECURSIVE Log2Down(_, _)
Log2Down(x, e) == IF x[1] * Pow2(-e) >= x[2] THEN e ELSE Log2Down(x, e - 1)
\* floor(log2(n/d)), n/d > 0
FloorLog2(x) == IF x[1] >= x[2] THEN Log2Up(x, 0) ELSE Log2Down(x, -1)

\* 2^k mod d
RECURSIVE PowMod2(_, _)
PowMod2(k, d) == IF k = 0 THEN 1 % d ELSE (2 * PowMod2(k - 1, d)) % d

Ulps(x) == IF Len(x) = 3 THEN x[3] ELSE 0

FloatDeviation(x) ==
    LET r == ((x[1] % x[2]) * PowMod2(MantissaBits - FloorLog2(x), x[2])) % x[2]
        nearest == IF 2 * r < x[2] THEN r ELSE r - x[2]
    IN  nearest - Ulps(x) * x[2]

\* The float product x * s against the exact product n * s / d, when that
\* is a double (an integer or a half): -1 when the rounded product of the
\* doubles falls below it, 1 when above, 0 when it is that double.
FloatMulSide(x, s) ==
    IF x[1] = 0 \/ s = 0 THEN 0
    ELSE LET dev == FloatDeviation(x)
             exact == RMul(<<x[1], x[2]>>, RInt(s))
             shift == Pow2(FloorLog2(exact) - FloorLog2(x))
             power == exact[2] * Pow2(Abs(FloorLog2(exact))) = exact[1]
                         \/ exact[1] * Pow2(Abs(FloorLog2(exact))) = exact[2]
         IN  IF dev = 0 THEN 0
             ELSE IF dev > 0
                  THEN IF (IF power THEN 4 ELSE 2) * dev * s <= x[2] * shift THEN 0 ELSE -1
                  ELSE IF 2 * (-dev) * s <= x[2] * shift THEN 0 ELSE 1

\* int(round(x * s)) for a float x and an int s >= 0
FloatMulRound(x, s) ==
    LET exact == RMul(<<x[1], x[2]>>, RInt(s))
        side == FloatMulSide(x, s)
    IN  IF exact[2] = 2 /\ side < 0 THEN exact[1] \div 2
        ELSE IF exact[2] = 2 /\ side > 0 THEN (exact[1] \div 2) + 1
        ELSE PyRound(exact)

\* int(math.ceil(x * s)) for a float x and an int s >= 0
FloatMulCeil(x, s) ==
    LET exact == RMul(<<x[1], x[2]>>, RInt(s))
    IN  IF exact[2] = 1 /\ FloatMulSide(x, s) > 0 THEN exact[1] + 1
        ELSE PyCeil(exact)

RECURSIVE SumSeq(_)
SumSeq(s) == IF s = <<>> THEN 0 ELSE Head(s) + SumSeq(Tail(s))

RECURSIVE RSumSeq(_)
RSumSeq(s) == IF s = <<>> THEN RInt(0) ELSE RAdd(Head(s), RSumSeq(Tail(s)))

RECURSIVE MinSeq(_)
MinSeq(s) ==
    IF Len(s) = 1 THEN s[1]
    ELSE LET m == MinSeq(Tail(s)) IN IF s[1] < m THEN s[1] ELSE m

\* ------------------------------------------------------------- schedules
\* pricing.observations_per_year / backtest._obs_per_year (a dict lookup)
observations_per_year(freq) ==
    CASE freq = "annual" -> 1
      [] freq = "semi-annual" -> 2
      [] freq = "quarterly" -> 4
      [] freq = "monthly" -> 12

\* pricing.build_obs_steps; t_years = y / obs_per_y is the double nearest to
\* the quotient.
build_obs_steps(maturity_years, steps_per_year, freq) ==
    LET obs_per_y == observations_per_year(freq)
        n == FloatMulCeil(maturity_years, obs_per_y)
        max_step == FloatMulRound(maturity_years, steps_per_year)
        raw == [y \in 1..n |-> FloatMulRound(Rat(y, obs_per_y), steps_per_year)]
    IN  [y \in 1..n |-> IF raw[y] < max_step THEN raw[y] ELSE max_step]


\* ------------------------------------------------------------ input sets
\* Levels a simulated path takes, per 100 of its initial level, and spots; no
\* price sits exactly on a barrier.
Prices == {60, 95, 115}
Spots == {100}

\* (maturity in quarter-years, steps_per_year): grids of at most two steps.
GridConfigs == {<<4, 1>>, <<4, 2>>, <<5, 1>>, <<8, 1>>}
Freqs == {"annual", "semi-annual"}
DipStyles == {"American", "European"}

\* types.ProductInputs.  A zero coupon and a downside barrier above the spot
\* are boundary inputs, taken one at a time.
Products ==
    {p \in [maturity_years : {Rat(g[1], 4) : g \in GridConfigs},
            dip_style : DipStyles,
            dip_strike_pct : {80, 100},
            dip_barrier_pct : {70, 105},
            autocall_barrier_pct : {110},
            coupon_barrier_pct : {90, 105},
            annual_coupon_pct : {0, 7},
            memory_feature : BOOLEAN,
            obs_frequency : Freqs] :
        p.annual_coupon_pct # 0 \/ p.dip_barrier_pct # 105}

\* ----------------------------------------------------------------- state
VARIABLES
    prod,               \* ProductInputs
    stock_price,        \* MarketInputs.stock_price
    steps_per_year,
    paths,              \* paths[i][step], step in 0..n_steps
    dipped,             \* dipped[i]
    obs_steps,
    j,                  \* observation counter of the pricing loop (1-based)
    call_obs_index,     \* call_obs_index[i], -1 while alive
    coupon_paid_flags,  \* coupon_paid_flags[i][j] in {0, 1}
    coupons_to_pay,     \* coupons_to_pay[i] as last assigned for path i
    payoff_final,       \* payoff_final[i] (loss leg of an uncalled path)
    payoffs,
    pay_times,
    diagnostics,
    bt,                 \* records of _evaluate_autocall_path, one per path
    pc,
    series_index,       \* prices.index: the trading dates of a history, in weeks
    series_launch,      \* launch date handed to _build_observation_dates
    series_obs,         \* list returned by _build_observation_dates
    series_values,      \* prices.values, one price per trading date
    back_years,         \* run_backtest(years=...)
    launch_freq,        \* run_backtest(launch_freq=...)
    launches,           \* list returned by _gen_launch_dates
    bt_error,           \* exception raised out of run_backtest, "" if none
    seed,               \* price_autocall_mc(seed=...)
    rng,                \* state of the generator made by line 65
    runs,               \* the calls of price_autocall_mc that have ended
    widgets,            \* values of the input widgets of render()
    mkt,                \* MarketInputs
    errors,             \* list returned by validate_inputs
    product_spec,       \* ProductSpec built by render() for the backtest
    path_state          \* locals of _evaluate_autocall_path during its loop

\* State of the calendar side, which price_autocall_mc never touches.
calendarVars == <<series_index, series_launch, series_obs, series_values,
                  back_years, launch_freq, launches, bt_error>>

\* State of a sequence of pricing calls.
runVars == <<seed, rng, runs>>

\* State of the page (render and validate_inputs) and of one stepwise path
\* evaluation.
appVars == <<widgets, mkt, errors, product_spec, path_state>>

\* No page rendered and no stepwise evaluation in progress.
NoAppState ==
    /\ widgets = <<>>
    /\ mkt = <<>>
    /\ errors = <<>>
    /\ product_spec = <<>>
    /\ path_state = <<>>

vars == <<prod, stock_price, steps_per_year, paths, dipped, obs_steps, j,
          call_obs_index, coupon_paid_flags, coupons_to_pay, payoff_final,
          payoffs, pay_times, diagnostics, bt, pc, calendarVars, runVars, appVars>>

\* ---------------------------------------------- price_autocall_mc: unpack
T == prod.maturity_years
obs_per_y == observations_per_year(prod.obs_frequency)
s0 == stock_price

\* Line 72, max(1e-12, s0).  Prices are counted in units of 5e-14, so that
\* the floor 1e-12 is 20 units and a spot below it is a whole number of
\* units; apart from this floor nothing in the code depends on the unit.
MinLevel == 20
FlooredSpot(spot) == IF spot < MinLevel THEN MinLevel ELSE spot

\* Lines 72-76: x starts at x0 = log(max(1e-12, s0)) and paths = exp(x), so
\* path i is exp(x0) = max(1e-12, s0) times the exponential of its summed
\* increments; growth[i][k] is that exponential at step k, per 100.
SimulatedPaths(spot, growth, steps) ==
    [i \in PathIds |->
        [k \in 0..steps |->
            IF k = 0 THEN FlooredSpot(spot)
            ELSE (FlooredSpot(spot) * growth[i][k]) \div 100]]
ac_bar == RMul(Rat(prod.autocall_barrier_pct, 100), RInt(s0))
coup_bar == RMul(Rat(prod.coupon_barrier_pct, 100), RInt(s0))
dip_bar == RMul(Rat(prod.dip_barrier_pct, 100), RInt(s0))
dip_strk == RMul(Rat(prod.dip_strike_pct, 100), RInt(s0))
coupon == Rat(prod.annual_coupon_pct, 100)
n_steps == FloatMulRound(T, steps_per_year)
n_obs == Len(obs_steps)

Init ==
    /\ prod \in Products
    /\ stock_price \in Spots
    /\ steps_per_year \in {g[2] : g \in {h \in GridConfigs : Rat(h[1], 4) = prod.maturity_years}}
    /\ paths = <<>>
    /\ dipped = <<>>
    /\ obs_steps = <<>>
    /\ j = 0
    /\ call_obs_index = <<>>
    /\ coupon_paid_flags = <<>>
    /\ coupons_to_pay = <<>>
    /\ payoff_final = <<>>
    /\ payoffs = <<>>
    /\ pay_times = <<>>
    /\ diagnostics = <<>>
    /\ bt = <<>>
    /\ pc = "simulate"
    /\ series_index = <<>>
    /\ series_launch = 0
    /\ series_obs = <<>>
    /\ series_values = <<>>
    /\ back_years = 0
    /\ launch_freq = ""
    /\ launches = <<>>
    /\ bt_error = ""
    /\ seed = 0
    /\ rng = 0
    /\ runs = <<>>
    /\ NoAppState

\* Lines 59-76: every path starts at the floored spot; the later columns
\* are driven by the normal draws, here any growth of Prices.
Simulate ==
    /\ pc = "simulate"
    /\ \E growth \in [PathIds -> [1..n_steps -> Prices]] :
          paths' = SimulatedPaths(s0, growth, n_steps)
    /\ pc' = "setup"
    /\ UNCHANGED <<prod, stock_price, steps_per_year, dipped, obs_steps, j,
                   call_obs_index, coupon_paid_flags, coupons_to_pay,
                   payoff_final, payoffs, pay_times, diagnostics, bt>>
    /\ UNCHANGED calendarVars
    /\ UNCHANGED runVars
    /\ UNCHANGED appVars

\* Line 79, str.lower().startswith("amer"): the strings whose lower case is
\* "amer" are the sixteen spellings of the four letters in either case, and
\* the test holds when the first four characters of the style are one of them.
AmerSpellings ==
    {a \o m \o e \o r : a \in {"a", "A"}, m \in {"m", "M"},
                        e \in {"e", "E"}, r \in {"r", "R"}}
StartsWithAmer(style) == Len(style) >= 4 /\ SubSeq(style, 1, 4) \in AmerSpellings

\* Lines 78-83: DIP monitoring of one path.
DippedAmerican(p) == RLt(RInt(MinSeq([k \in 1..n_steps + 1 |-> p[k - 1]])), dip_bar)
DippedEuropean(p) == RLt(RInt(p[n_steps]), dip_bar)
\* Mutant of DipMonitoring: the style ignored, terminal monitoring only.
DipMonitoringTerminalOnly(p) == DippedEuropean(p)

DipMonitoring(p) ==
    IF StartsWithAmer(prod.dip_style) THEN DippedAmerican(p) ELSE DippedEuropean(p)

\* Lines 78-92: barrier monitoring, schedule, result arrays.
Setup ==
    /\ pc = "setup"
    /\ dipped' = [i \in PathIds |-> DipMonitoring(paths[i])]
    /\ obs_steps' = build_obs_steps(T, steps_per_year, prod.obs_frequency)
    /\ payoffs' = [i \in PathIds |-> RInt(0)]
    /\ pay_times' = [i \in PathIds |-> RInt(0)]
    /\ call_obs_index' = [i \in PathIds |-> -1]
    /\ coupon_paid_flags' = [i \in PathIds |-> [k \in 1..Len(obs_steps') |-> 0]]
    /\ coupons_to_pay' = [i \in PathIds |-> RInt(0)]
    /\ payoff_final' = [i \in PathIds |-> RInt(0)]
    /\ j' = 1
    /\ pc' = "observe"
    /\ UNCHANGED <<prod, stock_price, steps_per_year, paths, diagnostics, bt>>
    /\ UNCHANGED calendarVars
    /\ UNCHANGED runVars
    /\ UNCHANGED appVars

\* --------------------------------- price_autocall_mc: observation loop
\* Line 95: s = paths[:, step]
ObservedPrices(step) == [i \in PathIds |-> paths[i][step]]

\* Line 98
alive_before(coi) == [i \in PathIds |-> coi[i] < 0]

\* Line 99
eligible_coupon(s, coi) ==
    [i \in PathIds |->
        IF RGe(RInt(s[i]), coup_bar) /\ alive_before(coi)[i] THEN 1 ELSE 0]

\* Mutant of call_mask: the autocall test without the alive condition.
call_mask_ignoring_alive(s, coi) ==
    [i \in PathIds |-> RGe(RInt(s[i]), ac_bar)]

\* Mutant of call_mask: called when the price is below the autocall barrier.
call_mask_below_barrier(s, coi) ==
    [i \in PathIds |-> RLt(RInt(s[i]), ac_bar) /\ coi[i] < 0]

\* Line 103
call_mask(s, coi) ==
    [i \in PathIds |-> RGe(RInt(s[i]), ac_bar) /\ coi[i] < 0]

\* Line 108
years_elapsed(jj) == Rat(jj, obs_per_y)

\* Lines 111-114: coupons_to_pay of one called path, flags being its row of
\* coupon_paid_flags after line 100.
CalledCoupons(flags, jj) ==
    IF prod.memory_feature
    THEN RInt(SumSeq(SubSeq(flags, 1, jj)))
    ELSE years_elapsed(jj)

\* Line 116
CalledPayoff(ctp) == RAdd(RInt(100), RMul(RMul(RInt(100), coupon), ctp))

\* Lines 94-117: one iteration of the loop over obs_steps.
ObserveStep ==
    /\ pc = "observe"
    /\ j <= n_obs
    /\ LET s == ObservedPrices(obs_steps[j])
           flags == [i \in PathIds |->
                       [coupon_paid_flags[i] EXCEPT ![j] = eligible_coupon(s, call_obs_index)[i]]]
           mask == call_mask(s, call_obs_index)
       IN  /\ coupon_paid_flags' = flags
           /\ IF ~(\E i \in PathIds : mask[i])
              THEN UNCHANGED <<call_obs_index, coupons_to_pay, payoffs, pay_times>>
              ELSE /\ call_obs_index' =
                        [i \in PathIds |-> IF mask[i] THEN j ELSE call_obs_index[i]]
                   /\ coupons_to_pay' =
                        [i \in PathIds |->
                            IF mask[i] THEN CalledCoupons(flags[i], j)
                            ELSE coupons_to_pay[i]]
                   /\ payoffs' =
                        [i \in PathIds |->
                            IF mask[i] THEN CalledPayoff(CalledCoupons(flags[i], j))
                            ELSE payoffs[i]]
                   /\ pay_times' =
                        [i \in PathIds |->
                            IF mask[i] THEN years_elapsed(j) ELSE pay_times[i]]
    /\ j' = j + 1
    /\ UNCHANGED <<prod, stock_price, steps_per_year, paths, dipped, obs_steps,
                   payoff_final, diagnostics, bt, pc>>
    /\ UNCHANGED calendarVars
    /\ UNCHANGED runVars
    /\ UNCHANGED appVars

\* --------------------------------------- price_autocall_mc: maturity leg
\* Mutant of not_called: the maturity leg applied to every path.
not_called_everyone(coi) == [i \in PathIds |-> TRUE]

\* Line 120
not_called(coi) == [i \in PathIds |-> coi[i] < 0]

\* Lines 123-126: coupons_to_pay of one uncalled path.
MaturityCoupons(flags, sT) ==
    IF prod.memory_feature
    THEN RInt(SumSeq(flags))
    ELSE IF RGe(RInt(sT), coup_bar) THEN RInt(1) ELSE RInt(0)

\* Line 128
PayoffNoDip(ctp) == RAdd(RInt(100), RMul(RMul(RInt(100), coupon), ctp))

\* Line 131
LossLeg(sT) ==
    IF RLt(RInt(sT), dip_strk)
    THEN RMul(RInt(100), RDiv(RInt(sT), dip_strk))
    ELSE RInt(100)

\* Line 132
PayoffFinal(dip, sT) == IF dip THEN RMin(RInt(100), LossLeg(sT)) ELSE RInt(100)

\* Line 134
MaturityPayoff(flags, dip, sT) ==
    RMin(PayoffNoDip(MaturityCoupons(flags, sT)), PayoffFinal(dip, sT))

\* Lines 119-135
Maturity ==
    /\ pc = "observe"
    /\ j > n_obs
    /\ LET nc == not_called(call_obs_index)
           sT == [i \in PathIds |-> paths[i][n_steps]]
       IN  /\ coupons_to_pay' =
                [i \in PathIds |->
                    IF nc[i] THEN MaturityCoupons(coupon_paid_flags[i], sT[i])
                    ELSE coupons_to_pay[i]]
           /\ payoff_final' =
                [i \in PathIds |->
                    IF nc[i] THEN PayoffFinal(dipped[i], sT[i]) ELSE payoff_final[i]]
           /\ payoffs' =
                [i \in PathIds |->
                    IF nc[i] THEN MaturityPayoff(coupon_paid_flags[i], dipped[i], sT[i])
                    ELSE payoffs[i]]
           /\ pay_times' = [i \in PathIds |-> IF nc[i] THEN T ELSE pay_times[i]]
    /\ pc' = "diagnostics"
    /\ UNCHANGED <<prod, stock_price, steps_per_year, paths, dipped, obs_steps, j,
                   call_obs_index, coupon_paid_flags, diagnostics, bt>>
    /\ UNCHANGED calendarVars
    /\ UNCHANGED runVars
    /\ UNCHANGED appVars

\* ---------------------------------------- price_autocall_mc: diagnostics
\* np.mean of a 0/1 indicator over the ensemble.
MeanOf(ind) == Rat(Cardinality({i \in PathIds : ind[i]}), NPaths)

\* Mutant of CallProbs: the fraction of paths called at or before k.
CallProbsCumulative ==
    [k \in 1..n_obs |->
        MeanOf([i \in PathIds |-> call_obs_index[i] > 0 /\ call_obs_index[i] <= k])]

\* Line 143
CallProbs == [k \in 1..n_obs |-> MeanOf([i \in PathIds |-> call_obs_index[i] = k])]

\* Line 144: np.mean(coupon_paid_flags, axis=0)
CouponProbPerObs ==
    [k \in 1..n_obs |->
        Rat(Cardinality({i \in PathIds : coupon_paid_flags[i][k] = 1}), NPaths)]

\* Lines 137-166 (the discounted outputs are not represented).
Diagnostics ==
    /\ pc = "diagnostics"
    /\ diagnostics' =
         [call_prob_per_obs |-> CallProbs,
          coupon_prob_per_obs |-> CouponProbPerObs,
          prob_maturity |-> MeanOf([i \in PathIds |-> call_obs_index[i] < 0]),
          prob_capital_loss |-> MeanOf([i \in PathIds |-> RLt(payoffs[i], RInt(100))]),
          expected_duration_years |->
              RDiv(RSumSeq([i \in 1..NPaths |-> pay_times[i]]), RInt(NPaths)),
          payoff_samples |-> payoffs]
    /\ pc' = "backtest"
    /\ UNCHANGED <<prod, stock_price, steps_per_year, paths, dipped, obs_steps, j,
                   call_obs_index, coupon_paid_flags, coupons_to_pay, payoff_final,
                   payoffs, pay_times, bt>>
    /\ UNCHANGED calendarVars
    /\ UNCHANGED runVars
    /\ UNCHANGED appVars

\* ------------------------------------------------------------- backtest
\* backtest.ProductSpec (lines 15-23): the dataclass, barriers and coupon as
\* fractions of the launch level.
ProductSpec(maturity_years, obs_frequency, autocall_barrier, coupon_barrier, dip_barrier, annual_coupon, memory_feature) ==
    [maturity_years |-> maturity_years,
     obs_frequency |-> obs_frequency,
     autocall_barrier |-> autocall_barrier,
     coupon_barrier |-> coupon_barrier,
     dip_barrier |-> dip_barrier,
     annual_coupon |-> annual_coupon,
     memory_feature |-> memory_feature]

\* The spec argument of a direct call of run_backtest or
\* _evaluate_autocall_path for the contract prod: every term of prod, the
\* memory flag included, in ProductSpec's units.  (The page builds its own
\* ProductSpec from the widgets: render_prod_spec.)
spec_of_prod ==
    ProductSpec(prod.maturity_years,
                prod.obs_frequency,
                Rat(prod.autocall_barrier_pct, 100),
                Rat(prod.coupon_barrier_pct, 100),
                Rat(prod.dip_barrier_pct, 100),
                Rat(prod.annual_coupon_pct, 100),
                prod.memory_feature)

\* Dates are counted in weeks from the first date of the history, on a
\* calendar of months of four weeks: every date is the Friday closing its
\* week, month m ends on date Weeks(m), pd.DateOffset(months=m) adds Weeks(m)
\* and pd.DateOffset(years=y) adds Weeks(12 * y).
WeeksPerMonth == 4
Weeks(months) == WeeksPerMonth * months

\* The historical series of path i: one trading date per grid step, the
\* launch on the first date.
MonthsPerStep == 12 \div steps_per_year
HistIndex == [k \in 1..n_steps + 1 |-> Weeks((k - 1) * MonthsPerStep)]
HistPrices(i) == [k \in 1..n_steps + 1 |-> paths[i][k - 1]]

\* DatetimeIndex.searchsorted (side = left), 0-based position.
searchsorted(index, target) ==
    Cardinality({k \in 1..Len(index) : index[k] < target})

InIndex(index, d) == \E k \in 1..Len(index) : index[k] = d

\* backtest._build_observation_dates
build_observation_dates(launch, freq, maturity_years, prices_index) ==
    LET n_per_year == observations_per_year(freq)
        n == FloatMulRound(maturity_years, n_per_year)
    IN  [k \in 1..n |->
            LET target == launch + Weeks(PyInt(Rat(12 * k, n_per_year)))
                pos == searchsorted(prices_index, target)
            IN  IF InIndex(prices_index, target) THEN target
                ELSE IF pos >= Len(prices_index)
                     THEN prices_index[Len(prices_index)]
                     ELSE prices_index[pos + 1]]

\* ss.loc[:d].iloc[-1]: the level of the last date <= d, relative to s0.
LevelAt(index, values, init, d) ==
    LET last == CHOOSE k \in 1..Len(index) :
                    /\ index[k] <= d
                    /\ \A m \in 1..Len(index) : index[m] <= d => m <= k
    IN  Rat(values[last], init)

\* Mutant of CouponTest: the missed-coupon counter kept after a payment.
CouponTestNoReset(st, lvl, spec) ==
    IF RGe(lvl, spec.coupon_barrier)
    THEN [st EXCEPT
            !.coupon_paid = RAdd(st.coupon_paid,
                                 RMul(RInt(st.memory_accrual + 1),
                                      RDiv(spec.annual_coupon,
                                           RInt(observations_per_year(spec.obs_frequency))))),
            !.coupons_count = st.coupons_count + (st.memory_accrual + 1)]
    ELSE IF spec.memory_feature
         THEN [st EXCEPT !.memory_accrual = st.memory_accrual + 1]
         ELSE st

\* Lines 82-89: the coupon test of one observation.
CouponTest(st, lvl, spec) ==
    IF RGe(lvl, spec.coupon_barrier)
    THEN [st EXCEPT
            !.coupon_paid = RAdd(st.coupon_paid,
                                 RMul(RInt(st.memory_accrual + 1),
                                      RDiv(spec.annual_coupon,
                                           RInt(observations_per_year(spec.obs_frequency))))),
            !.coupons_count = st.coupons_count + (st.memory_accrual + 1),
            !.memory_accrual = 0]
    ELSE IF spec.memory_feature
         THEN [st EXCEPT !.memory_accrual = st.memory_accrual + 1]
         ELSE st

\* Lines 90-92: the autocall test of one observation.
AutocallTest(st, lvl, spec, d, idx) ==
    IF RGe(lvl, spec.autocall_barrier)
    THEN [st EXCEPT !.called = TRUE, !.call_date = d, !.idx = idx]
    ELSE [st EXCEPT !.idx = idx]

\* Lines 80-92: the loop over obs_dates from observation idx on.
RECURSIVE ObservationLoop(_, _, _, _, _, _, _)
ObservationLoop(st, idx, obs_dates, index, values, init, spec) ==
    IF idx > Len(obs_dates) THEN st
    ELSE LET lvl == LevelAt(index, values, init, obs_dates[idx])
             nxt == AutocallTest(CouponTest(st, lvl, spec), lvl, spec, obs_dates[idx], idx)
         IN  IF nxt.called THEN nxt
             ELSE ObservationLoop(nxt, idx + 1, obs_dates, index, values, init, spec)

\* Mutant of Settlement: the barrier monitored on every date of the path, the
\* loss then computed from the final level.
SettlementAnyDate(st, obs_dates, index, values, init, spec) ==
    IF st.called
    THEN [maturity |-> st.call_date, principal |-> RInt(1), outcome_type |-> "Autocall"]
    ELSE LET maturity == obs_dates[Len(obs_dates)]
             last_lvl == LevelAt(index, values, init, maturity)
         IN  IF \A k \in 1..Len(index) :
                    index[k] <= maturity => RGe(Rat(values[k], init), spec.dip_barrier)
             THEN [maturity |-> maturity, principal |-> RInt(1),
                   outcome_type |-> "Capital Redemption"]
             ELSE [maturity |-> maturity,
                   principal |-> RDiv(last_lvl, spec.dip_barrier),
                   outcome_type |-> "Capital Loss"]

\* Lines 94-102: maturity date, principal and outcome class.
Settlement(st, obs_dates, index, values, init, spec) ==
    IF st.called
    THEN [maturity |-> st.call_date, principal |-> RInt(1), outcome_type |-> "Autocall"]
    ELSE LET maturity == obs_dates[Len(obs_dates)]
             last_lvl == LevelAt(index, values, init, maturity)
         IN  IF RGe(last_lvl, spec.dip_barrier)
             THEN [maturity |-> maturity, principal |-> RInt(1),
                   outcome_type |-> "Capital Redemption"]
             ELSE [maturity |-> maturity,
                   principal |-> RDiv(last_lvl, spec.dip_barrier),
                   outcome_type |-> "Capital Loss"]

\* backtest._evaluate_autocall_path on the series (index, values); the day
\* count and the simple IRR derived from it are not represented.
evaluate_autocall_path(index, values, launch, spec) ==
    LET init == values[CHOOSE k \in 1..Len(index) : index[k] = launch]
        obs_dates == build_observation_dates(launch, spec.obs_frequency,
                                             spec.maturity_years, index)
        st0 == [coupon_paid |-> RInt(0), coupons_count |-> 0, memory_accrual |-> 0,
                called |-> FALSE, call_date |-> -1, idx |-> 0]
        st == ObservationLoop(st0, 1, obs_dates, index, values, init, spec)
        fin == Settlement(st, obs_dates, index, values, init, spec)
    IN  [launch |-> launch,
         end |-> fin.maturity,
         called |-> st.called,
         coupons |-> st.coupons_count,
         coupon_paid |-> st.coupon_paid,
         principal |-> fin.principal,
         total_return |-> RAdd(RAdd(fin.principal, RInt(-1)), st.coupon_paid),
         outcome_type |-> fin.outcome_type,
         obs_count |-> Len(obs_dates),
         obs_reached |-> IF st.called THEN st.idx ELSE Len(obs_dates)]

\* One call of _evaluate_autocall_path: the next path's series, launched on
\* its first date.
EvaluatePath ==
    /\ pc = "backtest"
    /\ Len(bt) < NPaths
    /\ bt' = Append(bt, evaluate_autocall_path(HistIndex, HistPrices(Len(bt) + 1),
                                               HistIndex[1], spec_of_prod))
    /\ pc' = IF Len(bt') = NPaths THEN "done" ELSE "backtest"
    /\ UNCHANGED <<prod, stock_price, steps_per_year, paths, dipped, obs_steps, j,
                   call_obs_index, coupon_paid_flags, coupons_to_pay, payoff_final,
                   payoffs, pay_times, diagnostics>>
    /\ UNCHANGED calendarVars
    /\ UNCHANGED runVars
    /\ UNCHANGED appVars

Next ==
    \/ Simulate
    \/ Setup
    \/ ObserveStep
    \/ Maturity
    \/ Diagnostics
    \/ EvaluatePath

Spec == Init /\ [][Next]_vars

\* ======================================================== claims C1..C10
Done == pc = "done"
Priced == pc \in {"diagnostics", "backtest", "done"}

\* Barrier tests of the claims, in integers: price >= pct% of the spot.
AtLeastPct(price, pct) == price * 100 >= pct * s0
BelowPct(price, pct) == price * 100 < pct * s0

\* The levels each engine observes on path i.
MCObsPrices(i) == [k \in 1..n_obs |-> paths[i][obs_steps[k]]]
BTObsDates ==
    build_observation_dates(HistIndex[1], prod.obs_frequency, prod.maturity_years, HistIndex)
PositionOf(d) == CHOOSE k \in 1..Len(HistIndex) : HistIndex[k] = d
BTObsPrices(i) == [k \in 1..Len(BTObsDates) |-> HistPrices(i)[PositionOf(BTObsDates[k])]]
SameObservations(i) == MCObsPrices(i) = BTObsPrices(i)

\* What price_autocall_mc credits to path i, as fractions of the notional.
MCCalled(i) == call_obs_index[i] > 0
MCCouponAmount(i) == RMul(coupon, coupons_to_pay[i])
MCPrincipal(i) == IF MCCalled(i) THEN RInt(1) ELSE RDiv(payoff_final[i], RInt(100))

\* The last observation at which path i is alive.
LastAliveObs(i) == IF MCCalled(i) THEN call_obs_index[i] ELSE n_obs

\* C1: on every path that both engines observe at the same levels, the Monte
\* Carlo payoff logic and _evaluate_autocall_path yield the same call
\* observation (or none), the same coupon amount and the same principal.
C1_SamePayoffMachine ==
    Done =>
        \A i \in PathIds :
            SameObservations(i) =>
                /\ MCCalled(i) = bt[i].called
                /\ bt[i].called => call_obs_index[i] = bt[i].obs_reached
                /\ MCCouponAmount(i) = bt[i].coupon_paid
                /\ MCPrincipal(i) = bt[i].principal

\* Number of coupon periods a memory coupon pays on path i from observation
\* k on, given the count of consecutive misses so far.
RECURSIVE MemoryPeriods(_, _, _)
MemoryPeriods(i, k, missed) ==
    IF k > LastAliveObs(i) THEN 0
    ELSE IF AtLeastPct(paths[i][obs_steps[k]], prod.coupon_barrier_pct)
         THEN (missed + 1) + MemoryPeriods(i, k + 1, 0)
         ELSE MemoryPeriods(i, k + 1, missed + 1)

\* C2: with the memory feature, the coupon amount credited to a path is the
\* sum, over the alive observations at or above the coupon barrier, of
\* (missed_count + 1) x annual_coupon / obs_per_year.
C2_MemoryCouponAmount ==
    (Priced /\ prod.memory_feature) =>
        \A i \in PathIds :
            MCCouponAmount(i) =
                RMul(RInt(MemoryPeriods(i, 1, 0)), RDiv(coupon, RInt(obs_per_y)))

\* Observations 1..jj of path i at or above the coupon barrier.
PaidObservations(i, jj) ==
    {k \in 1..jj : AtLeastPct(paths[i][obs_steps[k]], prod.coupon_barrier_pct)}

\* C3: without the memory feature, the coupon amount of a path called at
\* observation jj counts only the observations 1..jj at or above the coupon
\* barrier; the missed ones are forfeited.
C3_NoMemoryForfeits ==
    (Priced /\ ~prod.memory_feature) =>
        \A i \in PathIds :
            MCCalled(i) =>
                MCCouponAmount(i) =
                    RMul(RInt(Cardinality(PaidObservations(i, call_obs_index[i]))),
                         RDiv(coupon, RInt(obs_per_y)))

\* The docstring's coupon condition of an uncalled path.
EarnedCoupon(i) ==
    IF prod.memory_feature
    THEN PaidObservations(i, n_obs) # {}
    ELSE AtLeastPct(paths[i][n_steps], prod.coupon_barrier_pct)

\* C4: an uncalled path whose downside barrier is not breached is paid its
\* coupons on top of par: its payoff exceeds 100 when it earned a coupon and
\* the coupon rate is positive.
C4_MaturityCouponsPaid ==
    Priced =>
        \A i \in PathIds :
            (~MCCalled(i) /\ ~dipped[i] /\ prod.annual_coupon_pct > 0 /\ EarnedCoupon(i))
                => RLt(RInt(100), payoffs[i])

\* Paths a and b carry the same prices on every grid step up to and including
\* the step of observation jj.
AgreeUpToObs(a, b, jj) == \A k \in 0..obs_steps[jj] : paths[a][k] = paths[b][k]

\* The series of paths a and b carry the same prices on every date up to d.
AgreeUpToDate(a, b, d) ==
    \A k \in 1..Len(HistIndex) : HistIndex[k] <= d => HistPrices(a)[k] = HistPrices(b)[k]

\* C5: a path is called at the first observation at or above the autocall
\* barrier and evaluation stops there: in both engines two paths that agree
\* up to and including the call observation get the same outcome, whatever
\* their later prices.
C5_CallStopsEvaluation ==
    /\ \A a, b \in PathIds :
        (/\ pc \in {"observe", "diagnostics", "backtest", "done"}
         /\ MCCalled(a)
         /\ AgreeUpToObs(a, b, call_obs_index[a]))
            => /\ call_obs_index[b] = call_obs_index[a]
               /\ \A k \in 1..call_obs_index[a] - 1 :
                     ~AtLeastPct(paths[a][obs_steps[k]], prod.autocall_barrier_pct)
               /\ coupon_paid_flags[b] = coupon_paid_flags[a]
               /\ coupons_to_pay[b] = coupons_to_pay[a]
               /\ payoffs[b] = payoffs[a]
               /\ pay_times[b] = pay_times[a]
    /\ \A a, b \in 1..Len(bt) :
        (bt[a].called /\ AgreeUpToDate(a, b, bt[a].end)) => bt[b] = bt[a]

\* Two different paths that agree up to a call before the last observation,
\* both engines having called them.
C5_Witness ==
    /\ Done
    /\ \E a, b \in PathIds :
        /\ paths[a] # paths[b]
        /\ MCCalled(a)
        /\ call_obs_index[a] < n_obs
        /\ AgreeUpToObs(a, b, call_obs_index[a])
        /\ bt[a].called
        /\ AgreeUpToDate(a, b, bt[a].end)

\* C6: a called contract never carries a capital loss: a called record is an
\* 'Autocall' with principal 1.0, and a called simulated path has a payoff of
\* at least 100 when the coupon rate is not negative.
C6_CalledNeverLoses ==
    /\ \A a \in 1..Len(bt) :
        bt[a].called => (bt[a].outcome_type = "Autocall" /\ bt[a].principal = RInt(1))
    /\ \A i \in PathIds :
        (Priced /\ MCCalled(i) /\ prod.annual_coupon_pct >= 0)
            => RGe(payoffs[i], RInt(100))

\* A path called by both engines whose terminal price is below the downside
\* barrier.
C6_Witness ==
    /\ Done
    /\ \E i \in PathIds :
        /\ MCCalled(i)
        /\ bt[i].called
        /\ dipped[i]
        /\ BelowPct(paths[i][n_steps], prod.dip_barrier_pct)

\* C7: the principal of every record lies in [0, 1] and is below 1 exactly
\* when the outcome is 'Capital Loss'.
C7_PrincipalRange ==
    \A a \in 1..Len(bt) :
        /\ RGe(bt[a].principal, RInt(0))
        /\ RGe(RInt(1), bt[a].principal)
        /\ RLt(bt[a].principal, RInt(1)) <=> bt[a].outcome_type = "Capital Loss"

\* A capital loss next to an uncalled path that went below the barrier and
\* recovered.
C7_Witness ==
    /\ Done
    /\ \E a, b \in PathIds :
        /\ bt[a].outcome_type = "Capital Loss"
        /\ bt[b].outcome_type = "Capital Redemption"
        /\ \E k \in 1..n_steps : BelowPct(paths[b][k], prod.dip_barrier_pct)

\* The downside leg of the contract on the series of path i, as the claims
\* state it.
LastObsDate == BTObsDates[Len(BTObsDates)]
SeriesBreached(i) ==
    IF prod.dip_style = "American"
    THEN \E k \in 1..Len(HistIndex) :
            HistIndex[k] <= LastObsDate /\ BelowPct(HistPrices(i)[k], prod.dip_barrier_pct)
    ELSE BelowPct(HistPrices(i)[PositionOf(LastObsDate)], prod.dip_barrier_pct)
SeriesPrincipal(i) ==
    IF SeriesBreached(i)
    THEN RMin(RInt(1), Rat(HistPrices(i)[PositionOf(LastObsDate)] * 100,
                           prod.dip_strike_pct * s0))
    ELSE RInt(1)

\* C8: for a historical path that is never called the downside barrier is
\* monitored in the contract's style (American: any price of the path below
\* the barrier; European: the final level) and on a breach the principal is
\* min(100%, S_T / strike).
C8_BacktestDownsideLeg ==
    \A a \in 1..Len(bt) : ~bt[a].called => bt[a].principal = SeriesPrincipal(a)

\* The downside leg of a simulated path, as the claim states it.
PathBreached(i) ==
    IF prod.dip_style = "American"
    THEN \E k \in 0..n_steps : BelowPct(paths[i][k], prod.dip_barrier_pct)
    ELSE BelowPct(paths[i][n_steps], prod.dip_barrier_pct)
BarrierAdjusted(i) ==
    IF PathBreached(i)
    THEN RMin(RInt(100), Rat(100 * paths[i][n_steps] * 100, prod.dip_strike_pct * s0))
    ELSE RInt(100)
NoBreachPayoff(i) ==
    LET periods == IF prod.memory_feature
                   THEN Cardinality(PaidObservations(i, n_obs))
                   ELSE IF AtLeastPct(paths[i][n_steps], prod.coupon_barrier_pct)
                        THEN 1 ELSE 0
    IN  RInt(100 + prod.annual_coupon_pct * periods)

\* C9: the payoff of a path that is never called is min(no-breach payoff,
\* barrier-adjusted payoff), the barrier-adjusted payoff being
\* min(100, 100 x S_T / strike) on a breach (American: some grid point below
\* the barrier; European: the terminal price below it) and 100 otherwise; the
\* downside feature never raises the payoff above the no-breach payoff.
C9_UncalledPayoff ==
    Priced =>
        \A i \in PathIds :
            ~MCCalled(i) =>
                /\ payoffs[i] = RMin(NoBreachPayoff(i), BarrierAdjusted(i))
                /\ RGe(NoBreachPayoff(i), payoffs[i])

\* An uncalled path that went below the barrier between two observations or
\* before the last one and ended above it, and one that ended below the
\* strike.
C9_Witness ==
    /\ Done
    /\ \E a, b \in PathIds :
        /\ ~MCCalled(a) /\ ~MCCalled(b)
        /\ PathBreached(a)
        /\ ~BelowPct(paths[a][n_steps], prod.dip_barrier_pct)
        /\ PathBreached(b)
        /\ BelowPct(paths[b][n_steps], prod.dip_strike_pct)

\* Paths alive before observation k.
AliveBefore(k) == {i \in PathIds : ~MCCalled(i) \/ call_obs_index[i] >= k}

\* C10: the coupon probability of observation k is conditioned on survival:
\* (paths alive before k at or above the coupon barrier) / (paths alive
\* before k).
C10_CouponProbConditional ==
    Done =>
        \A k \in 1..n_obs :
            AliveBefore(k) # {} =>
                diagnostics.coupon_prob_per_obs[k] =
                    Rat(Cardinality({i \in AliveBefore(k) :
                            AtLeastPct(paths[i][obs_steps[k]], prod.coupon_barrier_pct)}),
                        Cardinality(AliveBefore(k)))

\* ======================================================= claims C11..C20
\* The first observation of path i at or above the autocall barrier, 0 if
\* there is none.
FirstCallObs(i) ==
    LET hits == {k \in 1..n_obs :
                    AtLeastPct(paths[i][obs_steps[k]], prod.autocall_barrier_pct)}
    IN  IF hits = {} THEN 0 ELSE CHOOSE k \in hits : \A m \in hits : k <= m

\* C11: every path is called at most once, its call observation once set is
\* never overwritten, call_prob_per_obs[k] is the fraction of paths called
\* exactly at k, and the call probabilities plus prob_maturity sum to 1.
C11_CallProbabilities ==
    /\ pc \in {"observe", "diagnostics", "backtest", "done"} =>
        \A i \in PathIds :
            MCCalled(i) =>
                /\ call_obs_index[i] < j
                /\ call_obs_index[i] = FirstCallObs(i)
    /\ Done =>
        /\ \A k \in 1..n_obs :
              diagnostics.call_prob_per_obs[k] =
                  Rat(Cardinality({i \in PathIds : FirstCallObs(i) = k}), NPaths)
        /\ RAdd(RSumSeq(diagnostics.call_prob_per_obs), diagnostics.prob_maturity) = RInt(1)

\* A path called before the last observation that is at or above the
\* autocall barrier again later, next to a path that is never called.
C11_Witness ==
    /\ Done
    /\ \E a, b \in PathIds :
        /\ MCCalled(a)
        /\ \E k \in call_obs_index[a] + 1..n_obs :
              /\ obs_steps[k] > obs_steps[call_obs_index[a]]
              /\ AtLeastPct(paths[a][obs_steps[k]], prod.autocall_barrier_pct)
        /\ ~MCCalled(b)

\* C19 as stated: 0 <= prob_capital_loss <= 1 - prob_maturity.
C19_LossBelowCalledShare ==
    Done =>
        /\ RGe(diagnostics.prob_capital_loss, RInt(0))
        /\ RGe(RAdd(RInt(1), RMul(RInt(-1), diagnostics.prob_maturity)),
               diagnostics.prob_capital_loss)

\* C19 (amended): for a coupon rate >= 0 the probability of capital loss lies
\* between 0 and the probability of reaching maturity, since only a path that
\* is never called can be paid less than 100.
C19_LossBelowMaturityShare ==
    (Done /\ prod.annual_coupon_pct >= 0) =>
        /\ RGe(diagnostics.prob_capital_loss, RInt(0))
        /\ RGe(diagnostics.prob_maturity, diagnostics.prob_capital_loss)
        /\ \A i \in PathIds : RLt(payoffs[i], RInt(100)) => ~MCCalled(i)

\* One path called with a terminal price below the barrier, the other paid
\* less than 100 at maturity.
C19_Witness ==
    /\ Done
    /\ \E a, b \in PathIds :
        /\ MCCalled(a) /\ dipped[a]
        /\ ~MCCalled(b) /\ RLt(payoffs[b], RInt(100))

\* ==================================================== schedule builders
\* build_obs_steps and _build_observation_dates called on their own, over a
\* wider range of maturities, frequencies, grids and calendars than the
\* pricing run above.  A calendar is the increasing list of its trading
\* dates.
Horizon == 24
MaxQuarters == 8

\* constants.OBS_FREQS
OBS_FREQS == {"annual", "semi-annual", "quarterly", "monthly"}

\* Quarter-year maturities, 0.7 and 1 + 7/12 (the double above the one
\* nearest to 19/12).
SchedMaturities == {Rat(q, 4) : q \in 1..MaxQuarters} \cup {<<7, 10>>, <<19, 12, 1>>}
SchedStepsPerYear == {1, 4, 12, 18, 365}

\* The list of the elements of a finite set of integers, in increasing order.
RECURSIVE SortedSeq(_)
SortedSeq(S) ==
    IF S = {} THEN <<>>
    ELSE LET m == CHOOSE x \in S : \A y \in S : y <= x
         IN  Append(SortedSeq(S \ {m}), m)

\* Calendars: a trading date at the end of every `every` months from month 0
\* up to month `last`, the months of `closed` taken out (closures).
Calendar(every, last, closed) ==
    SortedSeq({Weeks(m) : m \in {n \in 0..last : n % every = 0 /\ n \notin closed}})

\* A trading date every week up to the end of month `last`, the weeks of
\* `closed` taken out.
WeeklyCalendar(last, closed) ==
    SortedSeq({w \in 0..Weeks(last) : w \notin closed})

Calendars ==
    {Calendar(every, last, closed) :
        every \in {1, 3, 12}, last \in {12, Horizon}, closed \in {{}, {3}, {6}, {12}}}

\* The contract terms the schedule builders do not read are held fixed.
SchedProducts ==
    [maturity_years : SchedMaturities,
     dip_style : {"European"},
     dip_strike_pct : {100},
     dip_barrier_pct : {70},
     autocall_barrier_pct : {110},
     coupon_barrier_pct : {90},
     annual_coupon_pct : {7},
     memory_feature : {TRUE},
     obs_frequency : OBS_FREQS]

\* No pricing run in progress.
NoPricingState ==
    /\ stock_price \in Spots
    /\ paths = <<>>
    /\ dipped = <<>>
    /\ j = 0
    /\ call_obs_index = <<>>
    /\ coupon_paid_flags = <<>>
    /\ coupons_to_pay = <<>>
    /\ payoff_final = <<>>
    /\ payoffs = <<>>
    /\ pay_times = <<>>
    /\ diagnostics = <<>>

InitSched ==
    /\ prod \in SchedProducts
    /\ steps_per_year \in SchedStepsPerYear
    /\ series_index \in Calendars
    /\ series_launch = series_index[1]
    /\ series_obs = <<>>
    /\ series_values = <<>>
    /\ back_years = 0
    /\ launch_freq = ""
    /\ launches = <<>>
    /\ bt_error = ""
    /\ obs_steps = <<>>
    /\ bt = <<>>
    /\ pc = "schedule"
    /\ NoPricingState
    /\ seed = 0
    /\ rng = 0
    /\ runs = <<>>
    /\ NoAppState

\* One call of pricing.build_obs_steps.
BuildObsSteps ==
    /\ pc = "schedule"
    /\ obs_steps' = build_obs_steps(prod.maturity_years, steps_per_year, prod.obs_frequency)
    /\ pc' = "steps"
    /\ UNCHANGED <<prod, stock_price, steps_per_year, paths, dipped, j,
                   call_obs_index, coupon_paid_flags, coupons_to_pay, payoff_final,
                   payoffs, pay_times, diagnostics, bt, calendarVars>>
    /\ UNCHANGED runVars
    /\ UNCHANGED appVars

\* One call of backtest._build_observation_dates.
BuildObservationDates ==
    /\ pc = "steps"
    /\ series_obs' = build_observation_dates(series_launch, prod.obs_frequency,
                                             prod.maturity_years, series_index)
    /\ pc' = "dates"
    /\ UNCHANGED <<prod, stock_price, steps_per_year, paths, dipped, obs_steps, j,
                   call_obs_index, coupon_paid_flags, coupons_to_pay, payoff_final,
                   payoffs, pay_times, diagnostics, bt, series_index, series_launch,
                   series_values, back_years, launch_freq, launches, bt_error>>
    /\ UNCHANGED runVars
    /\ UNCHANGED appVars

NextSched ==
    \/ BuildObsSteps
    \/ BuildObservationDates

SpecSched == InitSched /\ [][NextSched]_vars

SchedulesBuilt == pc = "dates"
ExpectedCount == PyCeil(RMul(prod.maturity_years, RInt(obs_per_y)))
StrictlyIncreasing(seq) == \A a, b \in 1..Len(seq) : a < b => seq[a] < seq[b]

\* C12: for every maturity > 0 and every observation frequency both schedule
\* builders return exactly ceil(maturity x observations-per-year) points, so
\* neither schedule is ever empty.
C12_ScheduleLength ==
    SchedulesBuilt =>
        /\ Len(obs_steps) = ExpectedCount
        /\ Len(series_obs) = ExpectedCount
        /\ Len(series_obs) > 0

\* C13: every observation schedule is strictly increasing, the grid steps of
\* build_obs_steps as well as the dates of _build_observation_dates.
C13_ScheduleStrictlyIncreasing ==
    SchedulesBuilt =>
        /\ StrictlyIncreasing(obs_steps)
        /\ StrictlyIncreasing(series_obs)

\* ========================================================= run_backtest
\* run_backtest on a price history.  On the calendar of Weeks every date is
\* a Friday, so that the period-end labels of resample("W-FRI" / "M" / "Q" /
\* "Y") are dates of the same kind: every date closes a week, date d closes
\* a month when d % Weeks(1) = 0, a quarter when d % Weeks(3) = 0 and a year
\* when d % Weeks(12) = 0.
BacktestHorizon == 36

LaunchFreqs == {"Weekly", "Monthly", "Quarterly", "Yearly"}
BackYears == {1, 2}
BacktestMaturities == {RInt(1), RInt(2), Rat(5, 4)}

BacktestCalendars ==
    {Calendar(every, last, closed) :
        every \in {1, 3}, last \in {BacktestHorizon - 12, BacktestHorizon - 1, BacktestHorizon},
        closed \in {{}, {12}, {24}, {18, 24}}}
    \cup {WeeklyCalendar(BacktestHorizon - 12, closed) :
              closed \in {{}, {Weeks(6) - 1, Weeks(6)}, {Weeks(12) - 1, Weeks(12)}}}

\* Three price histories over a calendar: the levels 95, 115 and 60 in turn,
\* starting at a different one.
SeriesValues(index) ==
    {[k \in 1..Len(index) |-> <<95, 115, 60>>[((k + shift) % 3) + 1]] : shift \in 0..2}

BacktestProducts ==
    [maturity_years : BacktestMaturities,
     dip_style : {"European"},
     dip_strike_pct : {100},
     dip_barrier_pct : {70},
     autocall_barrier_pct : {110},
     coupon_barrier_pct : {90},
     annual_coupon_pct : {7},
     memory_feature : {TRUE},
     obs_frequency : {"annual", "quarterly"}]

\* Weeks in one period of the launch frequency (lines 33-40; every value
\* other than Weekly, Monthly and Quarterly takes the yearly branch).
WeeksPerPeriod(freq) ==
    IF freq = "Weekly" THEN 1
    ELSE IF freq = "Monthly" THEN Weeks(1)
    ELSE IF freq = "Quarterly" THEN Weeks(3)
    ELSE Weeks(12)

\* Label of the resample bin holding date d: the end of its period.
PeriodEnd(d, freq) ==
    ((d + WeeksPerPeriod(freq) - 1) \div WeeksPerPeriod(freq)) * WeeksPerPeriod(freq)

\* Lines 30-40: the period ends from the first to the last date of the window.
Anchors(index, years, freq) ==
    LET end == index[Len(index)]
        start == end - Weeks(12 * years)
        px == {index[k] : k \in {m \in 1..Len(index) : start <= index[m] /\ index[m] <= end}}
        first == CHOOSE d \in px : \A e \in px : d <= e
        from == PeriodEnd(first, freq)
        count == ((PeriodEnd(end, freq) - from) \div WeeksPerPeriod(freq)) + 1
    IN  [k \in 1..count |-> from + (k - 1) * WeeksPerPeriod(freq)]

\* pd.DateOffset(years=y) accepts whole numbers of years only.
WholeYears(y) == y[2] = 1

\* Mutant of LifetimeFits: the date itself, not its maturity date, has to
\* lie within the history.
LifetimeFitsAtLaunch(index, d, maturity_years) ==
    d <= index[Len(index)]

\* d + pd.DateOffset(years=maturity_years) <= prices.index[-1]
LifetimeFits(index, d, maturity_years) ==
    d + Weeks(12 * maturity_years[1]) <= index[Len(index)]

\* Mutant of SnapAnchor: the next trading date taken without a second
\* lifetime test.
SnapAnchorNoRetest(index, d, maturity_years) ==
    <<index[searchsorted(index, d) + 1]>>

\* Lines 48-50: an anchor missing from the series.
SnapAnchor(index, d, maturity_years) ==
    LET nxt == index[searchsorted(index, d) + 1]
    IN  IF LifetimeFits(index, nxt, maturity_years) THEN <<nxt>> ELSE <<>>

\* Lines 43-50: what one anchor contributes to the list `good`.
KeepAnchor(index, d, maturity_years) ==
    IF LifetimeFits(index, d, maturity_years)
    THEN IF InIndex(index, d) THEN <<d>> ELSE SnapAnchor(index, d, maturity_years)
    ELSE <<>>

\* Lines 41-51: the loop over the anchors from position k on.
RECURSIVE GoodLaunches(_, _, _, _)
GoodLaunches(anchors, k, index, maturity_years) ==
    IF k > Len(anchors) THEN <<>>
    ELSE KeepAnchor(index, anchors[k], maturity_years)
            \o GoodLaunches(anchors, k + 1, index, maturity_years)

\* backtest._gen_launch_dates, for a whole number of maturity years.
gen_launch_dates(index, years, freq, maturity_years) ==
    GoodLaunches(Anchors(index, years, freq), 1, index, maturity_years)

\* DataFrame.sort_values("launch"): rows in non-decreasing launch order.
RECURSIVE SortByLaunch(_)
SortByLaunch(rows) ==
    IF rows = <<>> THEN <<>>
    ELSE LET m == CHOOSE a \in 1..Len(rows) :
                      \A b \in 1..Len(rows) : rows[a].launch <= rows[b].launch
         IN  <<rows[m]>> \o
             SortByLaunch([k \in 1..Len(rows) - 1 |-> IF k < m THEN rows[k] ELSE rows[k + 1]])

InitBacktest ==
    /\ prod \in BacktestProducts
    /\ series_index \in BacktestCalendars
    /\ series_values \in SeriesValues(series_index)
    /\ back_years \in BackYears
    /\ launch_freq \in LaunchFreqs
    /\ launches = <<>>
    /\ bt_error = ""
    /\ series_launch = 0
    /\ series_obs = <<>>
    /\ steps_per_year = 12
    /\ obs_steps = <<>>
    /\ bt = <<>>
    /\ pc = "launches"
    /\ NoPricingState
    /\ seed = 0
    /\ rng = 0
    /\ runs = <<>>
    /\ NoAppState

\* Line 125; a maturity that is not a whole number of years makes
\* pd.DateOffset raise ValueError at the first anchor.
GenLaunchDates ==
    /\ pc = "launches"
    /\ IF WholeYears(prod.maturity_years)
       THEN /\ launches' = gen_launch_dates(series_index, back_years, launch_freq,
                                            prod.maturity_years)
            /\ pc' = "evaluate"
            /\ UNCHANGED bt_error
       ELSE /\ bt_error' = "ValueError"
            /\ pc' = "raised"
            /\ UNCHANGED launches
    /\ UNCHANGED <<prod, stock_price, steps_per_year, paths, dipped, obs_steps, j,
                   call_obs_index, coupon_paid_flags, coupons_to_pay, payoff_final,
                   payoffs, pay_times, diagnostics, bt, series_index, series_launch,
                   series_obs, series_values, back_years, launch_freq>>
    /\ UNCHANGED runVars
    /\ UNCHANGED appVars

\* Line 126, the comprehension: the record of the next launch, with the
\* obs_dates of that evaluation (line 72).
EvaluateLaunch ==
    /\ pc = "evaluate"
    /\ Len(bt) < Len(launches)
    /\ series_launch' = launches[Len(bt) + 1]
    /\ series_obs' = build_observation_dates(series_launch', prod.obs_frequency,
                                             prod.maturity_years, series_index)
    /\ bt' = Append(bt, evaluate_autocall_path(series_index, series_values,
                                               series_launch', spec_of_prod))
    /\ UNCHANGED <<prod, stock_price, steps_per_year, paths, dipped, obs_steps, j,
                   call_obs_index, coupon_paid_flags, coupons_to_pay, payoff_final,
                   payoffs, pay_times, diagnostics, pc, series_index, series_values,
                   back_years, launch_freq, launches, bt_error>>
    /\ UNCHANGED runVars
    /\ UNCHANGED appVars

\* Line 126, from_records(...).sort_values("launch").reset_index(drop=True):
\* a frame built from no record has no column, and sorting it by "launch"
\* raises KeyError.
ReturnFrame ==
    /\ pc = "evaluate"
    /\ Len(bt) = Len(launches)
    /\ IF bt = <<>>
       THEN /\ bt_error' = "KeyError"
            /\ pc' = "raised"
            /\ UNCHANGED bt
       ELSE /\ bt' = SortByLaunch(bt)
            /\ pc' = "returned"
            /\ UNCHANGED bt_error
    /\ UNCHANGED <<prod, stock_price, steps_per_year, paths, dipped, obs_steps, j,
                   call_obs_index, coupon_paid_flags, coupons_to_pay, payoff_final,
                   payoffs, pay_times, diagnostics, series_index, series_launch,
                   series_obs, series_values, back_years, launch_freq, launches>>
    /\ UNCHANGED runVars
    /\ UNCHANGED appVars

\* fig_duration, line 134: f"A{x}"
ObsLabel(x) == "A" \o ToString(x)

\* fig_duration (lines 129-134) on the frame run_backtest returned, as the
\* page and plots.make_duration_plot_inline call it: the column obs_label is
\* written into the caller's frame; an empty frame is left as it is.
FigDuration ==
    /\ pc = "returned"
    /\ bt' = IF bt = <<>> THEN bt
             ELSE [k \in 1..Len(bt) |->
                     [f \in DOMAIN bt[k] \cup {"obs_label"} |->
                         IF f = "obs_label" THEN ObsLabel(bt[k].obs_reached)
                         ELSE bt[k][f]]]
    /\ pc' = "plotted"
    /\ UNCHANGED <<prod, stock_price, steps_per_year, paths, dipped, obs_steps, j,
                   call_obs_index, coupon_paid_flags, coupons_to_pay, payoff_final,
                   payoffs, pay_times, diagnostics, series_index, series_launch,
                   series_obs, series_values, back_years, launch_freq, launches,
                   bt_error>>
    /\ UNCHANGED runVars
    /\ UNCHANGED appVars

NextBacktest ==
    \/ GenLaunchDates
    \/ EvaluateLaunch
    \/ ReturnFrame
    \/ FigDuration

SpecBacktest == InitBacktest /\ [][NextBacktest]_vars

FrameReturned == pc \in {"returned", "plotted"}
BacktestEnded == FrameReturned \/ pc = "raised"
LastDate == series_index[Len(series_index)]

\* C14: when no launch date is feasible run_backtest returns an empty result
\* with zero records and does not raise.
C14_EmptyBacktestReturns ==
    (BacktestEnded /\ WholeYears(prod.maturity_years) /\ launches = <<>>) =>
        /\ FrameReturned
        /\ bt_error = ""
        /\ bt = <<>>

LaunchesListed == pc = "evaluate" \/ FrameReturned \/ (pc = "raised" /\ bt_error = "KeyError")
NextTradingDate(d) ==
    LET later == {series_index[k] : k \in {m \in 1..Len(series_index) : series_index[m] > d}}
    IN  CHOOSE n \in later : \A m \in later : n <= m
AnchorSet ==
    LET a == Anchors(series_index, back_years, launch_freq)
    IN  {a[k] : k \in 1..Len(a)}
AbsentAnchors == {a \in AnchorSet : ~InIndex(series_index, a) /\ a < LastDate}
MaturityWeeks == Weeks(12 * prod.maturity_years[1])

\* C15: every launch date returned by _gen_launch_dates is a date of the
\* price series with launch + maturity <= last date of the series; it is an
\* anchor of the series or the next trading date after an absent anchor, the
\* latter only when the lifetime test holds for the snapped date as well; and
\* the list is in non-decreasing date order.
C15_LaunchDatesFeasible ==
    LaunchesListed =>
        LET anchors == AnchorSet
            absent == {a \in anchors : ~InIndex(series_index, a) /\ a < LastDate}
            snapped == [a \in absent |-> NextTradingDate(a)]
            listed == {launches[k] : k \in 1..Len(launches)}
        IN  /\ \A d \in listed :
                  /\ InIndex(series_index, d)
                  /\ d + MaturityWeeks <= LastDate
                  /\ \/ d \in anchors
                     \/ \E a \in absent :
                           /\ a + MaturityWeeks <= LastDate
                           /\ d = snapped[a]
            /\ \A a \in absent :
                  snapped[a] + MaturityWeeks > LastDate => snapped[a] \notin listed
            /\ \A a, b \in 1..Len(launches) : a < b => launches[a] <= launches[b]

\* A list with a snapped launch, and an absent anchor that fits the history
\* while its snapped date does not.
C15_Witness ==
    /\ LaunchesListed
    /\ \E k \in 1..Len(launches) : launches[k] \notin AnchorSet
    /\ \E a \in AbsentAnchors :
          /\ a + MaturityWeeks <= LastDate
          /\ NextTradingDate(a) + MaturityWeeks > LastDate

\* Nominal date of observation k of a contract launched on d.
NominalDate(d, k) == d + Weeks((12 * k) \div obs_per_y)
NominalCount == PyRound(RMul(prod.maturity_years, RInt(obs_per_y)))
TradingDates == {series_index[k] : k \in 1..Len(series_index)}

\* C16: each nominal observation date of an evaluated launch is mapped to the
\* earliest trading date on or after it, and a launch with a nominal
\* observation date after the last trading date gets no record.
C16_ObservationDatesSnapForward ==
    /\ ((pc = "evaluate" \/ FrameReturned) /\ bt # <<>>) =>
          /\ Len(series_obs) = NominalCount
          /\ \A k \in 1..Len(series_obs) :
                /\ series_obs[k] \in TradingDates
                /\ series_obs[k] >= NominalDate(series_launch, k)
                /\ \A d \in TradingDates :
                      d >= NominalDate(series_launch, k) => series_obs[k] <= d
    /\ LaunchesListed =>
          \A d \in TradingDates :
              (\E k \in 1..NominalCount : NominalDate(d, k) > LastDate) =>
                  /\ \A k \in 1..Len(launches) : launches[k] # d
                  /\ \A k \in 1..Len(bt) : bt[k].launch # d

\* An evaluated launch with a nominal date that is no trading date, while an
\* anchor of the same series is a trading date whose schedule runs past the
\* history.
C16_Witness ==
    /\ (pc = "evaluate" \/ FrameReturned)
    /\ bt # <<>>
    /\ \E k \in 1..Len(series_obs) : series_obs[k] > NominalDate(series_launch, k)
    /\ \E d \in TradingDates \cap AnchorSet :
          \E k \in 1..NominalCount : NominalDate(d, k) > LastDate

\* ============================================== repeated pricing calls
\* A sequence of calls of price_autocall_mc, each with its own product and
\* seed.  The normal draws of a call come from the generator that line 65
\* makes for that call; a draw selects the price level of one grid step.
MaxRuns == 3
RngModulus == 8

Seeds == {1, 2}
\* seed=None, the default of line 30.
NoSeed == -1

\* Products of the calls: both known styles at two autocall barriers, two
\* unknown styles (one of them a spelling line 79 takes for American) and an
\* unknown observation frequency.
UnknownStyles == {"Bermudan", "american"}
RunProducts ==
    {p \in [maturity_years : {RInt(1)},
            dip_style : DipStyles \cup UnknownStyles,
            dip_strike_pct : {100},
            dip_barrier_pct : {70},
            autocall_barrier_pct : {90, 110},
            coupon_barrier_pct : {90},
            annual_coupon_pct : {7},
            memory_feature : {TRUE},
            obs_frequency : {"semi-annual", "weekly"}] :
        (p.dip_style \notin DipStyles \/ p.obs_frequency \notin OBS_FREQS) =>
            /\ p.autocall_barrier_pct = 110
            /\ (p.dip_style \in DipStyles \/ p.obs_frequency \in OBS_FREQS)}

\* (prod, seed) of one call; the unseeded call and the calls with an unknown
\* value are made with one product and one seed each.
RunCalls ==
    {c \in RunProducts \X (Seeds \cup {NoSeed}) :
        /\ c[2] = NoSeed => (c[1].dip_style = "European" /\ c[1].autocall_barrier_pct = 110
                               /\ c[1].obs_frequency \in OBS_FREQS)
        /\ (c[1].dip_style \notin DipStyles \/ c[1].obs_frequency \notin OBS_FREQS) => c[2] = 2}

\* Generator.standard_normal: the state after n draws; a draw is read off
\* the state it leaves.
RECURSIVE Advance(_, _)
Advance(st, n) ==
    IF n = 0 THEN st ELSE Advance((5 * st + 3) % RngModulus, n - 1)

\* Mutant of default_rng: one generator shared by all calls, each call
\* drawing on from the state the previous call left.
shared_rng(sd) == {rng}

\* np.random.default_rng(seed): the initial states of a fresh generator, one
\* state fixed by an integer seed, any state (OS entropy) for seed=None.
default_rng(sd) ==
    IF sd = NoSeed THEN {0, 5} ELSE {(5 * sd + 5) % RngModulus}

PriceLevels == SortedSeq(Prices)

\* Lines 68-76: z is drawn row by row, draw (i, k) moves path i at step k.
SeededPaths(st) ==
    SimulatedPaths(s0,
                   [i \in PathIds |->
                       [k \in 1..n_steps |->
                           PriceLevels[(Advance(st, (i - 1) * n_steps + k)
                                            % Len(PriceLevels)) + 1]]],
                   n_steps)

NoCallState ==
    /\ paths = <<>>
    /\ dipped = <<>>
    /\ obs_steps = <<>>
    /\ j = 0
    /\ call_obs_index = <<>>
    /\ coupon_paid_flags = <<>>
    /\ coupons_to_pay = <<>>
    /\ payoff_final = <<>>
    /\ payoffs = <<>>
    /\ pay_times = <<>>
    /\ diagnostics = <<>>

InitRuns ==
    /\ \E c \in RunCalls : prod = c[1] /\ seed = c[2]
    /\ stock_price \in Spots
    /\ steps_per_year = 2
    /\ rng = 0
    /\ runs = <<>>
    /\ bt = <<>>
    /\ pc = "simulate"
    /\ NoCallState
    /\ series_index = <<>>
    /\ series_launch = 0
    /\ series_obs = <<>>
    /\ series_values = <<>>
    /\ back_years = 0
    /\ launch_freq = ""
    /\ launches = <<>>
    /\ bt_error = ""
    /\ NoAppState

\* Line 46: the frequency table has no entry for the value, KeyError leaves
\* the call before anything is simulated.
RaiseKeyError ==
    /\ pc = "simulate"
    /\ prod.obs_frequency \notin OBS_FREQS
    /\ runs' = Append(runs, [prod |-> prod, seed |-> seed, steps_per_year |-> steps_per_year,
                             error |-> "KeyError", call_obs_index |-> <<>>,
                             payoffs |-> <<>>, pay_times |-> <<>>, diagnostics |-> <<>>])
    /\ pc' = "returned"
    /\ UNCHANGED <<prod, stock_price, steps_per_year, paths, dipped, obs_steps, j,
                   call_obs_index, coupon_paid_flags, coupons_to_pay, payoff_final,
                   payoffs, pay_times, diagnostics, bt, calendarVars, seed, rng>>
    /\ UNCHANGED appVars

\* Lines 59-76 with the generator of line 65.
SimulateSeeded ==
    /\ pc = "simulate"
    /\ prod.obs_frequency \in OBS_FREQS
    /\ \E st \in default_rng(seed) :
          /\ paths' = SeededPaths(st)
          /\ rng' = Advance(st, NPaths * n_steps)
    /\ pc' = "setup"
    /\ UNCHANGED <<prod, stock_price, steps_per_year, dipped, obs_steps, j,
                   call_obs_index, coupon_paid_flags, coupons_to_pay, payoff_final,
                   payoffs, pay_times, diagnostics, bt, calendarVars, seed, runs>>
    /\ UNCHANGED appVars

\* Lines 149-166: the call returns its price and diagnostics.
ReturnPrice ==
    /\ pc = "backtest"
    /\ runs' = Append(runs, [prod |-> prod, seed |-> seed, steps_per_year |-> steps_per_year,
                             error |-> "", call_obs_index |-> call_obs_index,
                             payoffs |-> payoffs, pay_times |-> pay_times,
                             diagnostics |-> diagnostics])
    /\ pc' = "returned"
    /\ UNCHANGED <<prod, stock_price, steps_per_year, paths, dipped, obs_steps, j,
                   call_obs_index, coupon_paid_flags, coupons_to_pay, payoff_final,
                   payoffs, pay_times, diagnostics, bt, calendarVars, seed, rng>>
    /\ UNCHANGED appVars

\* The next call of price_autocall_mc, its locals fresh.
CallAgain ==
    /\ pc = "returned"
    /\ Len(runs) < MaxRuns
    /\ \E c \in RunCalls : prod' = c[1] /\ seed' = c[2]
    /\ paths' = <<>>
    /\ dipped' = <<>>
    /\ obs_steps' = <<>>
    /\ j' = 0
    /\ call_obs_index' = <<>>
    /\ coupon_paid_flags' = <<>>
    /\ coupons_to_pay' = <<>>
    /\ payoff_final' = <<>>
    /\ payoffs' = <<>>
    /\ pay_times' = <<>>
    /\ diagnostics' = <<>>
    /\ pc' = "simulate"
    /\ UNCHANGED <<stock_price, steps_per_year, bt, calendarVars, rng, runs>>
    /\ UNCHANGED appVars

NextRuns ==
    \/ RaiseKeyError
    \/ SimulateSeeded
    \/ Setup
    \/ ObserveStep
    \/ Maturity
    \/ Diagnostics
    \/ ReturnPrice
    \/ CallAgain

SpecRuns == InitRuns /\ [][NextRuns]_vars

SameArguments(a, b) ==
    /\ runs[a].prod = runs[b].prod
    /\ runs[a].steps_per_year = runs[b].steps_per_year
    /\ runs[a].seed = runs[b].seed

\* C17: two calls with identical product, grid and the same non-None seed
\* return identical payoffs, payment times and diagnostics, whatever calls
\* were made before or between them.
C17_SeededRunsRepeat ==
    \A a, b \in 1..Len(runs) :
        (SameArguments(a, b) /\ runs[a].seed # NoSeed) =>
            /\ runs[a].error = runs[b].error
            /\ runs[a].payoffs = runs[b].payoffs
            /\ runs[a].pay_times = runs[b].pay_times
            /\ runs[a].diagnostics = runs[b].diagnostics

\* Two priced calls with the same arguments and a call with another seed
\* between them.
C17_Witness ==
    /\ Len(runs) = 3
    /\ SameArguments(1, 3)
    /\ runs[1].seed # NoSeed
    /\ runs[1].error = ""
    /\ runs[2].seed \notin {runs[1].seed, NoSeed}
    /\ runs[2].error = ""
    /\ runs[2].payoffs # runs[1].payoffs

CalledPaths(r) == {i \in PathIds : r.call_obs_index[i] > 0}

SameButAutocallBarrier(a, b) ==
    /\ runs[a].error = ""
    /\ runs[b].error = ""
    /\ runs[a].seed = runs[b].seed
    /\ runs[a].seed # NoSeed
    /\ runs[a].steps_per_year = runs[b].steps_per_year
    /\ [runs[a].prod EXCEPT !.autocall_barrier_pct = 0] =
       [runs[b].prod EXCEPT !.autocall_barrier_pct = 0]

\* C18: on the same ensemble (same seed) and with the other terms equal, the
\* call with the higher autocall barrier calls a subset of the paths and its
\* prob_maturity is not lower.
C18_HigherBarrierFewerCalls ==
    \A a, b \in 1..Len(runs) :
        (SameButAutocallBarrier(a, b)
            /\ runs[a].prod.autocall_barrier_pct < runs[b].prod.autocall_barrier_pct) =>
            /\ CalledPaths(runs[b]) \subseteq CalledPaths(runs[a])
            /\ RGe(runs[b].diagnostics.prob_maturity, runs[a].diagnostics.prob_maturity)

\* Two such calls where the higher barrier calls strictly fewer paths, some
\* path being called under both.
C18_Witness ==
    \E a, b \in 1..Len(runs) :
        /\ SameButAutocallBarrier(a, b)
        /\ runs[a].prod.autocall_barrier_pct < runs[b].prod.autocall_barrier_pct
        /\ CalledPaths(runs[b]) # {}
        /\ CalledPaths(runs[b]) # CalledPaths(runs[a])

\* C20: a call with an observation frequency or a downside-barrier style
\* outside the known values fails with an error and returns no price.
C20_UnknownValueIsFatal ==
    \A a \in 1..Len(runs) :
        (runs[a].prod.obs_frequency \notin OBS_FREQS \/ runs[a].prod.dip_style \notin DipStyles) =>
            /\ runs[a].error # ""
            /\ runs[a].diagnostics = <<>>

\* ======================================================= validate_inputs
\* validate_inputs called on its own.  Percentages are whole numbers; the
\* market rates are rationals.
MaturityValues == {RInt(0), RInt(1)}
BarrierValues == {0, 1, 300, 301}
StrikeValues == {0, 100, 301}
CouponValues == {-1, 0, 100, 101}

ValidatedProducts ==
    [maturity_years : MaturityValues,
     dip_style : DipStyles \cup {"Bermudan"},
     dip_strike_pct : StrikeValues,
     dip_barrier_pct : BarrierValues,
     autocall_barrier_pct : BarrierValues,
     coupon_barrier_pct : StrikeValues,
     annual_coupon_pct : CouponValues,
     memory_feature : {TRUE},
     obs_frequency : {"annual", "monthly", "weekly"}]

\* types.MarketInputs: one market within all ranges, and one out of range
\* in each field.
MarketInRange ==
    [stock_price |-> 100, volatility |-> Rat(20, 100),
     interest_rate |-> Rat(2, 100), dividend_yield |-> RInt(0)]

Markets ==
    {MarketInRange,
     [MarketInRange EXCEPT !.stock_price = 0],
     [MarketInRange EXCEPT !.volatility = Rat(151, 100)],
     [MarketInRange EXCEPT !.interest_rate = Rat(-11, 100)],
     [MarketInRange EXCEPT !.dividend_yield = Rat(21, 100)]}

\* lo <= x <= hi on rationals
RBetween(lo, x, hi) == RGe(x, lo) /\ RGe(hi, x)

\* Lines 6-13
MarketErrors(m) ==
    (IF m.stock_price <= 0 THEN <<"Stock price must be > 0">> ELSE <<>>)
    \o (IF ~RBetween(RInt(0), m.volatility, Rat(15, 10))
        THEN <<"Volatility must be in [0%, 150%]">> ELSE <<>>)
    \o (IF ~RBetween(Rat(-10, 100), m.interest_rate, Rat(20, 100))
        THEN <<"Interest rate must be in [-10%, 20%]">> ELSE <<>>)
    \o (IF ~RBetween(RInt(0), m.dividend_yield, Rat(20, 100))
        THEN <<"Dividend yield must be in [0%, 20%]">> ELSE <<>>)

\* Lines 17-23: the table of (name, value, lo, hi).
RangeTable(p) ==
    <<<<"DIP Strike", p.dip_strike_pct, 1, 300>>,
      <<"DIP Barrier", p.dip_barrier_pct, 1, 300>>,
      <<"Autocallable Barrier", p.autocall_barrier_pct, 1, 300>>,
      <<"Coupon Barrier", p.coupon_barrier_pct, 1, 300>>,
      <<"Annualized coupon", p.annual_coupon_pct, 0, 100>>>>

\* Lines 16-25: one message per row out of its range, in table order; the
\* message is represented by the name of its row.
RECURSIVE RangeErrors(_, _)
RangeErrors(table, k) ==
    IF k > Len(table) THEN <<>>
    ELSE (IF ~(table[k][3] <= table[k][2] /\ table[k][2] <= table[k][4])
          THEN <<table[k][1]>> ELSE <<>>)
         \o RangeErrors(table, k + 1)

\* Mutant of CoherenceErrors: equal barriers accepted.
CoherenceErrorsEqualAllowed(p) ==
    IF p.dip_barrier_pct > p.autocall_barrier_pct
    THEN <<"DIP Barrier should be < Autocallable Barrier for a coherent payoff">>
    ELSE <<>>

\* Lines 27-28
CoherenceErrors(p) ==
    IF p.dip_barrier_pct >= p.autocall_barrier_pct
    THEN <<"DIP Barrier should be < Autocallable Barrier for a coherent payoff">>
    ELSE <<>>

\* validation.validate_inputs
validate_inputs(p, m) ==
    MarketErrors(m)
    \o (IF RGe(RInt(0), p.maturity_years) THEN <<"Maturity must be > 0">> ELSE <<>>)
    \o RangeErrors(RangeTable(p), 1)
    \o CoherenceErrors(p)
    \o (IF p.dip_style \notin {"American", "European"}
        THEN <<"DIP style must be American or European">> ELSE <<>>)
    \o (IF p.obs_frequency \notin {"annual", "semi-annual", "quarterly", "monthly"}
        THEN <<"Observation frequency invalid">> ELSE <<>>)

InitValidate ==
    /\ prod \in ValidatedProducts
    /\ mkt \in Markets
    /\ stock_price = mkt.stock_price
    /\ errors = <<>>
    /\ widgets = <<>>
    /\ product_spec = <<>>
    /\ path_state = <<>>
    /\ steps_per_year = 1
    /\ obs_steps = <<>>
    /\ bt = <<>>
    /\ pc = "validate"
    /\ NoCallState
    /\ series_index = <<>>
    /\ series_launch = 0
    /\ series_obs = <<>>
    /\ series_values = <<>>
    /\ back_years = 0
    /\ launch_freq = ""
    /\ launches = <<>>
    /\ bt_error = ""
    /\ seed = 0
    /\ rng = 0
    /\ runs = <<>>

\* One call of validate_inputs.
ValidateInputs ==
    /\ pc = "validate"
    /\ errors' = validate_inputs(prod, mkt)
    /\ pc' = "validated"
    /\ UNCHANGED <<prod, stock_price, steps_per_year, paths, dipped, obs_steps, j,
                   call_obs_index, coupon_paid_flags, coupons_to_pay, payoff_final,
                   payoffs, pay_times, diagnostics, bt, calendarVars, runVars,
                   widgets, mkt, product_spec, path_state>>

NextValidate == ValidateInputs

SpecValidate == InitValidate /\ [][NextValidate]_vars

\* ================================================================ render
\* modules/accueil.render: the widgets are read, ProductInputs and
\* MarketInputs are built and validated, and the Backtest button builds the
\* ProductSpec from the same widgets.  Market widgets are in percent.
WidgetValues ==
    [stock_price : {100},
     dividend_yield : {0},
     interest_rate : {2},
     volatility : {20, 151},
     annual_coupon_pct : {7},
     obs_frequency : OBS_FREQS,
     memory_feature : {"Yes", "No"},
     maturity_years : {Rat(1, 4), RInt(1), RInt(5)},
     dip_barrier_pct : {70, 120},
     dip_style : DipStyles,
     autocall_barrier_pct : {110},
     coupon_barrier_pct : {100}]

\* bool(s) of a Python string: False for the empty string only.
PyBoolOfString(str) == str # ""

\* Lines 85-96; dip_strike_pct is the constant of line 72.
render_prod(w) ==
    [maturity_years |-> w.maturity_years,
     dip_style |-> w.dip_style,
     dip_strike_pct |-> 100,
     dip_barrier_pct |-> w.dip_barrier_pct,
     autocall_barrier_pct |-> w.autocall_barrier_pct,
     coupon_barrier_pct |-> w.coupon_barrier_pct,
     annual_coupon_pct |-> w.annual_coupon_pct,
     memory_feature |-> PyBoolOfString(w.memory_feature),
     obs_frequency |-> w.obs_frequency]

\* Lines 97-103
render_mkt(w) ==
    [stock_price |-> w.stock_price,
     volatility |-> Rat(w.volatility, 100),
     interest_rate |-> Rat(w.interest_rate, 100),
     dividend_yield |-> Rat(w.dividend_yield, 100)]

\* Lines 193-201
render_prod_spec(w) ==
    ProductSpec(w.maturity_years,
                w.obs_frequency,
                Rat(w.autocall_barrier_pct, 100),
                Rat(w.coupon_barrier_pct, 100),
                Rat(w.dip_barrier_pct, 100),
                Rat(w.annual_coupon_pct, 100),
                w.memory_feature = "Yes")

InitRender ==
    /\ widgets \in WidgetValues
    /\ prod = <<>>
    /\ mkt = <<>>
    /\ stock_price = widgets.stock_price
    /\ errors = <<>>
    /\ product_spec = <<>>
    /\ path_state = <<>>
    /\ steps_per_year = 252
    /\ obs_steps = <<>>
    /\ bt = <<>>
    /\ pc = "inputs"
    /\ NoCallState
    /\ series_index = <<>>
    /\ series_launch = 0
    /\ series_obs = <<>>
    /\ series_values = <<>>
    /\ back_years = 0
    /\ launch_freq = ""
    /\ launches = <<>>
    /\ bt_error = ""
    /\ seed = 42
    /\ rng = 0
    /\ runs = <<>>

\* Lines 85-104
BuildInputs ==
    /\ pc = "inputs"
    /\ prod' = render_prod(widgets)
    /\ mkt' = render_mkt(widgets)
    /\ pc' = "validate"
    /\ UNCHANGED <<stock_price, steps_per_year, paths, dipped, obs_steps, j,
                   call_obs_index, coupon_paid_flags, coupons_to_pay, payoff_final,
                   payoffs, pay_times, diagnostics, bt, calendarVars, runVars,
                   widgets, errors, product_spec, path_state>>

\* Lines 192-201: the Backtest button, reached only when the validation
\* passed (st.stop() of line 110 otherwise).
BuildProductSpec ==
    /\ pc = "validated"
    /\ errors = <<>>
    /\ product_spec' = render_prod_spec(widgets)
    /\ pc' = "backtest requested"
    /\ UNCHANGED <<prod, stock_price, steps_per_year, paths, dipped, obs_steps, j,
                   call_obs_index, coupon_paid_flags, coupons_to_pay, payoff_final,
                   payoffs, pay_times, diagnostics, bt, calendarVars, runVars,
                   widgets, mkt, errors, path_state>>

NextRender ==
    \/ BuildInputs
    \/ ValidateInputs
    \/ BuildProductSpec

SpecRender == InitRender /\ [][NextRender]_vars

\* ============================================ _evaluate_autocall_path
\* One call of _evaluate_autocall_path, its observation loop taken one
\* observation at a time.
PathCalendars == {Calendar(every, Horizon, closed) : every \in {1, 3}, closed \in {{}, {6}}}

\* Price histories over a calendar: the levels 95, 115 and 60 in turn, or
\* 100 with one rise to 115 at the fourth date.
PathValues(index) ==
    SeriesValues(index) \cup {[k \in 1..Len(index) |-> IF k = 4 THEN 115 ELSE 100]}

PathProducts ==
    [maturity_years : {RInt(1), RInt(2)},
     dip_style : {"European"},
     dip_strike_pct : {100},
     dip_barrier_pct : {70},
     autocall_barrier_pct : {110, 125},
     coupon_barrier_pct : {90, 105},
     annual_coupon_pct : {7},
     memory_feature : BOOLEAN,
     obs_frequency : {"annual", "semi-annual", "quarterly"}]

InitPath ==
    /\ prod \in PathProducts
    /\ series_index \in PathCalendars
    /\ series_values \in PathValues(series_index)
    /\ series_launch = series_index[1]
    /\ series_obs = <<>>
    /\ path_state = <<>>
    /\ widgets = <<>>
    /\ mkt = <<>>
    /\ errors = <<>>
    /\ product_spec = <<>>
    /\ back_years = 0
    /\ launch_freq = ""
    /\ launches = <<>>
    /\ bt_error = ""
    /\ stock_price \in Spots
    /\ steps_per_year = 12
    /\ obs_steps = <<>>
    /\ bt = <<>>
    /\ pc = "path"
    /\ NoCallState
    /\ seed = 0
    /\ rng = 0
    /\ runs = <<>>

\* Lines 71-78: the schedule and the initial locals.
StartPath ==
    /\ pc = "path"
    /\ series_obs' = build_observation_dates(series_launch, prod.obs_frequency,
                                             prod.maturity_years, series_index)
    /\ path_state' = [coupon_paid |-> RInt(0), coupons_count |-> 0, memory_accrual |-> 0,
                      called |-> FALSE, call_date |-> -1, idx |-> 0]
    /\ pc' = "path loop"
    /\ UNCHANGED <<prod, stock_price, steps_per_year, paths, dipped, obs_steps, j,
                   call_obs_index, coupon_paid_flags, coupons_to_pay, payoff_final,
                   payoffs, pay_times, diagnostics, bt, series_index, series_launch,
                   series_values, back_years, launch_freq, launches, bt_error,
                   runVars, widgets, mkt, errors, product_spec>>

\* Lines 80-92: one pass of the loop, the coupon test then the autocall test.
EvaluateObservation ==
    /\ pc = "path loop"
    /\ ~path_state.called
    /\ path_state.idx < Len(series_obs)
    /\ LET d == series_obs[path_state.idx + 1]
           lvl == LevelAt(series_index, series_values,
                          series_values[CHOOSE k \in 1..Len(series_index) :
                                            series_index[k] = series_launch], d)
       IN  path_state' = AutocallTest(CouponTest(path_state, lvl, spec_of_prod), lvl,
                                      spec_of_prod, d, path_state.idx + 1)
    /\ UNCHANGED <<prod, stock_price, steps_per_year, paths, dipped, obs_steps, j,
                   call_obs_index, coupon_paid_flags, coupons_to_pay, payoff_final,
                   payoffs, pay_times, diagnostics, bt, pc, calendarVars,
                   runVars, widgets, mkt, errors, product_spec>>

\* Lines 94-121: settlement and the returned record.
SettlePath ==
    /\ pc = "path loop"
    /\ path_state.called \/ path_state.idx = Len(series_obs)
    /\ LET init == series_values[CHOOSE k \in 1..Len(series_index) :
                                     series_index[k] = series_launch]
           fin == Settlement(path_state, series_obs, series_index, series_values,
                             init, spec_of_prod)
       IN  bt' = <<[launch |-> series_launch,
                    end |-> fin.maturity,
                    called |-> path_state.called,
                    coupons |-> path_state.coupons_count,
                    coupon_paid |-> path_state.coupon_paid,
                    principal |-> fin.principal,
                    total_return |-> RAdd(RAdd(fin.principal, RInt(-1)),
                                          path_state.coupon_paid),
                    outcome_type |-> fin.outcome_type,
                    obs_count |-> Len(series_obs),
                    obs_reached |-> path_state.idx]>>
    /\ pc' = "path done"
    /\ UNCHANGED <<prod, stock_price, steps_per_year, paths, dipped, obs_steps, j,
                   call_obs_index, coupon_paid_flags, coupons_to_pay, payoff_final,
                   payoffs, pay_times, diagnostics, calendarVars,
                   runVars, appVars>>

NextPath ==
    \/ StartPath
    \/ EvaluateObservation
    \/ SettlePath

SpecPath == InitPath /\ [][NextPath]_vars

\* ======================================================= rescaled prices
\* The pricing run and the path evaluations of Spec, made a second time
\* with the spot multiplied by a constant and the same normal draws; the
\* results of the first pass are kept in `runs`.  One spot lies below the
\* floor of line 72.
ScaleFactors == {2, 4}
ScaleSpots == Spots \cup {MinLevel \div 2}

ScaleProducts ==
    [maturity_years : {RInt(1)},
     dip_style : {"American"},
     dip_strike_pct : {80, 100},
     dip_barrier_pct : {70},
     autocall_barrier_pct : {110},
     coupon_barrier_pct : {90, 105},
     annual_coupon_pct : {7},
     memory_feature : BOOLEAN,
     obs_frequency : {"semi-annual"}]

InitScale ==
    /\ prod \in ScaleProducts
    /\ stock_price \in ScaleSpots
    /\ steps_per_year = 2
    /\ obs_steps = <<>>
    /\ bt = <<>>
    /\ pc = "simulate"
    /\ paths = <<>>
    /\ dipped = <<>>
    /\ j = 0
    /\ call_obs_index = <<>>
    /\ coupon_paid_flags = <<>>
    /\ coupons_to_pay = <<>>
    /\ payoff_final = <<>>
    /\ payoffs = <<>>
    /\ pay_times = <<>>
    /\ diagnostics = <<>>
    /\ series_index = <<>>
    /\ series_launch = 0
    /\ series_obs = <<>>
    /\ series_values = <<>>
    /\ back_years = 0
    /\ launch_freq = ""
    /\ launches = <<>>
    /\ bt_error = ""
    /\ seed = 0
    /\ rng = 0
    /\ runs = <<>>
    /\ NoAppState

\* The exponentials of the summed increments behind a set of paths, per 100.
GrowthOf(ps, steps) ==
    [i \in PathIds |-> [k \in 1..steps |-> (ps[i][k] * 100) \div ps[i][0]]]

\* The caller's second pass: the results so far are set aside and the call
\* is made again with c times the spot and the same draws (lines 59-76 of
\* the second call, then its lines 78 on); the new paths are evaluated
\* again.
Rescale ==
    /\ pc = "done"
    /\ runs = <<>>
    /\ \E c \in ScaleFactors :
          /\ stock_price' = c * stock_price
          /\ paths' = SimulatedPaths(c * stock_price, GrowthOf(paths, n_steps), n_steps)
    /\ runs' = <<[stock_price |-> stock_price, paths |-> paths, dipped |-> dipped,
                  call_obs_index |-> call_obs_index, coupons_to_pay |-> coupons_to_pay,
                  payoffs |-> payoffs, pay_times |-> pay_times, bt |-> bt]>>
    /\ dipped' = <<>>
    /\ obs_steps' = <<>>
    /\ j' = 0
    /\ call_obs_index' = <<>>
    /\ coupon_paid_flags' = <<>>
    /\ coupons_to_pay' = <<>>
    /\ payoff_final' = <<>>
    /\ payoffs' = <<>>
    /\ pay_times' = <<>>
    /\ diagnostics' = <<>>
    /\ bt' = <<>>
    /\ pc' = "setup"
    /\ UNCHANGED <<prod, steps_per_year, calendarVars, seed, rng, appVars>>

NextScale ==
    \/ Simulate
    \/ Setup
    \/ ObserveStep
    \/ Maturity
    \/ Diagnostics
    \/ EvaluatePath
    \/ Rescale

SpecScale == InitScale /\ [][NextScale]_vars

\* ======================================================== claims C21..C26
StepsBuilt == pc \in {"steps", "dates"}
\* round(maturity x steps_per_year) as the grid of line 60 has it.
FinalStep == FloatMulRound(prod.maturity_years, steps_per_year)

\* C24: every step index returned by build_obs_steps lies in
\* 0..round(maturity x steps_per_year), a column of the path array, and the
\* last entry of the schedule is that final step.
C24_StepsWithinGrid ==
    StepsBuilt =>
        /\ \A k \in 1..Len(obs_steps) :
              /\ obs_steps[k] >= 0
              /\ obs_steps[k] <= FinalStep
        /\ Len(obs_steps) > 0
        /\ obs_steps[Len(obs_steps)] = FinalStep

GridTime(step) == RDiv(RMul(RInt(step), T), RInt(n_steps))

\* C23: the pay time of a path called at observation j is the grid time of
\* that observation's step, obs_steps[j-1] x T / n_steps, the pay time of an
\* uncalled path is T, and no pay time exceeds T.
C23_PayTimeIsGridTime ==
    Priced =>
        \A i \in PathIds :
            /\ MCCalled(i) => pay_times[i] = GridTime(obs_steps[call_obs_index[i]])
            /\ ~MCCalled(i) => pay_times[i] = T
            /\ RGe(T, pay_times[i])

Validated == pc = "validated"
PercentagesWithin(lo, hi) ==
    \A v \in {prod.dip_strike_pct, prod.dip_barrier_pct, prod.autocall_barrier_pct,
              prod.coupon_barrier_pct} : lo <= v /\ v <= hi
OtherTermsValid ==
    /\ RLt(RInt(0), prod.maturity_years)
    /\ 0 <= prod.annual_coupon_pct
    /\ prod.annual_coupon_pct <= 100
    /\ prod.dip_barrier_pct < prod.autocall_barrier_pct
    /\ prod.obs_frequency \in OBS_FREQS
    /\ prod.dip_style \in DipStyles

\* C21 as stated: with the market in range, validate_inputs returns no error
\* exactly when the terms are valid and the four barrier / strike percentages
\* lie in [0, 300].
C21_AcceptsZeroToThreeHundred ==
    (Validated /\ mkt = MarketInRange) =>
        (errors = <<>> <=> (OtherTermsValid /\ PercentagesWithin(0, 300)))

\* C21 (amended): with the market in range, validate_inputs returns no error
\* exactly when maturity > 0, the four barrier / strike percentages lie in
\* [1, 300], the coupon lies in [0, 100], the downside barrier is strictly
\* below the autocall barrier, the frequency is one of the four values and
\* the style is American or European.
C21_AcceptsOneToThreeHundred ==
    (Validated /\ mkt = MarketInRange) =>
        (errors = <<>> <=> (OtherTermsValid /\ PercentagesWithin(1, 300)))

\* Accepted inputs on the boundaries of the ranges.
C21_Witness ==
    /\ Validated
    /\ mkt = MarketInRange
    /\ errors = <<>>
    /\ prod.dip_barrier_pct = 1
    /\ prod.autocall_barrier_pct = 300
    /\ prod.annual_coupon_pct = 100

\* C26: ProductInputs.memory_feature built by render() is True exactly when
\* the Memory feature radio is "Yes", and equals the memory_feature of the
\* ProductSpec built from the same selection.
C26_MemoryFlagFollowsRadio ==
    /\ pc \in {"validate", "validated", "backtest requested"} =>
          (prod.memory_feature <=> widgets.memory_feature = "Yes")
    /\ pc = "backtest requested" =>
          (product_spec.memory_feature <=> prod.memory_feature)

InPathLoop == pc \in {"path loop", "path done"}

\* Level of the observation the next pass of the loop evaluates: the price
\* on that date over the price on the launch date.
PriceOn(d) == series_values[CHOOSE k \in 1..Len(series_index) : series_index[k] = d]
NextLevel == Rat(PriceOn(series_obs[path_state.idx + 1]), PriceOn(series_launch))
PeriodCoupon == Rat(prod.annual_coupon_pct, 100 * obs_per_y)

\* What one pass of the loop does to the coupon counters.
CouponStep ==
    IF RGe(NextLevel, Rat(prod.coupon_barrier_pct, 100))
    THEN /\ path_state'.coupon_paid =
                RAdd(path_state.coupon_paid,
                     RMul(RInt(path_state.memory_accrual + 1), PeriodCoupon))
         /\ path_state'.coupons_count =
                path_state.coupons_count + path_state.memory_accrual + 1
         /\ path_state'.memory_accrual = 0
    ELSE /\ path_state'.coupon_paid = path_state.coupon_paid
         /\ path_state'.coupons_count = path_state.coupons_count
         /\ path_state'.memory_accrual =
                path_state.memory_accrual + (IF prod.memory_feature THEN 1 ELSE 0)

\* C25: every pass of the observation loop applies the coupon test (pay
\* (memory_accrual + 1) periods and reset, or count a missed coupon when the
\* memory feature is on) even when it ends in a call; with memory on,
\* coupons + memory_accrual is the number of observations evaluated, and with
\* memory off memory_accrual stays 0.
C25_CouponBeforeAutocall ==
    /\ [](InPathLoop =>
            /\ prod.memory_feature =>
                  path_state.coupons_count + path_state.memory_accrual = path_state.idx
            /\ ~prod.memory_feature => path_state.memory_accrual = 0)
    /\ [][(pc = "path loop" /\ path_state' # path_state) =>
             /\ CouponStep
             /\ path_state'.idx = path_state.idx + 1
             /\ path_state'.called <=> RGe(NextLevel, Rat(prod.autocall_barrier_pct, 100))]_vars

\* A path with memory that missed coupons, then caught them up at the
\* observation that called it.
C25_Witness ==
    /\ pc = "path done"
    /\ prod.memory_feature
    /\ path_state.called
    /\ path_state.idx >= 2
    /\ path_state.coupons_count = path_state.idx
    /\ path_state.coupon_paid = RMul(RInt(path_state.idx), PeriodCoupon)
    /\ RLt(Rat(PriceOn(series_obs[1]), PriceOn(series_launch)),
           Rat(prod.coupon_barrier_pct, 100))

Rescaled == Len(runs) = 1
OutcomeFields(r) ==
    <<r.called, r.coupons, r.coupon_paid, r.principal, r.outcome_type, r.obs_reached>>
\* Price x is at least pct% of the initial price of path i.
AtLeastPctOfStart(i, x, pct) == x * 100 >= pct * paths[i][0]
MonitoredPrices(i) ==
    IF prod.dip_style = "American" THEN {paths[i][k] : k \in 0..n_steps}
    ELSE {paths[i][n_steps]}

\* C22: outcomes depend on prices relative to the path's own initial level.
\* Multiplying every price of a series by a constant leaves called, coupons,
\* coupon_paid, principal, outcome_type and obs_reached of its record
\* unchanged; in the pricer every path starts at the spot, calls and barrier
\* breaches are decided at the stated percentage of that initial price, and
\* the payoffs do not change with the scale.
C22_OutcomesScaleFree ==
    /\ Priced =>
          \A i \in PathIds :
              /\ paths[i][0] = stock_price
              /\ MCCalled(i) =>
                    AtLeastPctOfStart(i, paths[i][obs_steps[call_obs_index[i]]],
                                      prod.autocall_barrier_pct)
              /\ dipped[i] <=>
                    \E x \in MonitoredPrices(i) :
                        ~AtLeastPctOfStart(i, x, prod.dip_barrier_pct)
    /\ (Priced /\ Rescaled) =>
          /\ dipped = runs[1].dipped
          /\ call_obs_index = runs[1].call_obs_index
          /\ coupons_to_pay = runs[1].coupons_to_pay
          /\ payoffs = runs[1].payoffs
    /\ (Done /\ Rescaled) =>
          \A k \in 1..Len(bt) : OutcomeFields(bt[k]) = OutcomeFields(runs[1].bt[k])
====
